---------------------------- MODULE Spec2Model ----------------------------
(***************************************************************************)
(* Lexical retrieval core of the Unitree G1 knowledge corpus:              *)
(*   scripts/retrieval_scoring.py  tokenize, normalize_query_tokens,       *)
(*                                 classify_query_intent, score_record,    *)
(*                                 rank_records                            *)
(*   scripts/eval_retrieval.py     filter_leaky_records, dedupe_matches,   *)
(*                                 match_pattern_rank,                     *)
(*                                 evaluate_case_matches,                  *)
(*                                 the per-case body of main               *)
(*   scripts/build_knowledge_index.py  make_record, add_file_records       *)
(*                                                                         *)
(* Texts are TLA+ strings.  A JSON field of a record is a tagged value     *)
(* (absent key, JSON null, or a string / a list of strings), so that       *)
(* Python's str(record.get(k, "")) is modelled by what it does.            *)
(* A score is an exact rational: the Python code computes in binary        *)
(* floating point, whose rounding is not modelled.                         *)
(***************************************************************************)
EXTENDS Integers, Sequences, FiniteSets, TLC

VARIABLES
    index,           \* the record collection: built by ingestion, then loaded (load_index)
    query,           \* query string of the last call
    top_k,           \* top-K argument of the last call
    source_filters,  \* source_type allow-set of the last call ({} also stands for None: the code treats them alike)
    expected,        \* expected_path_patterns of the last evaluation case
    q_tokens,        \* query_tokens of the last call
    q_intents,       \* query_intents of the last call
    rec,             \* record of the last score_record call
    ranked,          \* list[Match] returned by rank_records
    deduped,         \* list[Match] returned by dedupe_matches
    score,           \* value returned by the last score_record call
    earlier,         \* the calls made before the last one: arguments and result of each
    reported,        \* the (score, record) pairs the query tool reports (query_index.py)
    token_text,      \* argument of the last tokenize call, as Unicode code points
    token_list,      \* list returned by the last tokenize call
    benchmark,       \* args.benchmark, the path of the benchmark definition file
    eval_records,    \* list returned by filter_leaky_records
    forbidden,       \* forbidden_path_patterns of the last evaluation case
    require_all_expected,  \* require_all_expected of the last evaluation case
    max_forbidden_hits,    \* max_forbidden_hits of the last evaluation case
    verdict,         \* tuple returned by evaluate_case_matches
    pc               \* which operation acted last

\* the variables of the calls of tokenize, filter_leaky_records and
\* evaluate_case_matches
call_vars ==
    <<token_text, token_list, benchmark, eval_records, forbidden, require_all_expected,
      max_forbidden_hits, verdict>>

vars ==
    <<index, query, top_k, source_filters, expected, q_tokens, q_intents, rec,
      ranked, deduped, score, earlier, reported, call_vars, pc>>

----------------------------------------------------------------------------
(* Python str primitives.                                                  *)

UpperChars == <<"A","B","C","D","E","F","G","H","I","J","K","L","M",
                "N","O","P","Q","R","S","T","U","V","W","X","Y","Z">>

LowerChars == <<"a","b","c","d","e","f","g","h","i","j","k","l","m",
                "n","o","p","q","r","s","t","u","v","w","x","y","z">>

Digits == {"0","1","2","3","4","5","6","7","8","9"}

Whitespace == {" ", "\t", "\n", "\r"}

Range(f) == {f[i] : i \in DOMAIN f}

CharAt(s, i) == SubSeq(s, i, i)

LowerChar(c) ==
    IF c \in Range(UpperChars)
    THEN LowerChars[CHOOSE i \in 1..26 : UpperChars[i] = c]
    ELSE c

RECURSIVE LowerFrom(_, _)
LowerFrom(s, i) ==
    IF i > Len(s) THEN "" ELSE LowerChar(CharAt(s, i)) \o LowerFrom(s, i + 1)

\* str.lower()
Lower(s) == LowerFrom(s, 1)

\* str.startswith / str.endswith / the `in` operator on two strings
StartsWith(s, p) == Len(s) >= Len(p) /\ SubSeq(s, 1, Len(p)) = p

EndsWith(s, p) == Len(s) >= Len(p) /\ SubSeq(s, Len(s) - Len(p) + 1, Len(s)) = p

Contains(s, sub) ==
    \E i \in 1..(Len(s) - Len(sub) + 1) : SubSeq(s, i, i + Len(sub) - 1) = sub

RECURSIVE StripLeft(_, _)
StripLeft(s, chars) ==
    IF s # "" /\ CharAt(s, 1) \in chars THEN StripLeft(SubSeq(s, 2, Len(s)), chars) ELSE s

RECURSIVE StripRight(_, _)
StripRight(s, chars) ==
    IF s # "" /\ CharAt(s, Len(s)) \in chars
    THEN StripRight(SubSeq(s, 1, Len(s) - 1), chars)
    ELSE s

\* str.strip(chars)
StripChars(s, chars) == StripRight(StripLeft(s, chars), chars)

\* str.strip()
Strip(s) == StripChars(s, Whitespace)

RECURSIVE JoinFrom(_, _, _)
JoinFrom(items, sep, i) ==
    IF i > Len(items) THEN ""
    ELSE IF i = Len(items) THEN items[i]
    ELSE items[i] \o sep \o JoinFrom(items, sep, i + 1)

\* sep.join(items)
Join(items, sep) == JoinFrom(items, sep, 1)

----------------------------------------------------------------------------
(* retrieval_scoring.py: TOKEN_RE, tokenize                                *)

\* the character class [a-zA-Z0-9_]
TokenChars == Range(UpperChars) \cup Range(LowerChars) \cup Digits \cup {"_"}

RECURSIVE FindAll(_, _, _, _)
FindAll(s, i, cur, acc) ==
    IF i > Len(s)
    THEN IF cur = "" THEN acc ELSE Append(acc, cur)
    ELSE IF CharAt(s, i) \in TokenChars
         THEN FindAll(s, i + 1, cur \o CharAt(s, i), acc)
         ELSE FindAll(s, i + 1, "", IF cur = "" THEN acc ELSE Append(acc, cur))

tokenize(text) == FindAll(Lower(text), 1, "", <<>>)

----------------------------------------------------------------------------
(* tokenize on a text of any characters.  A TLA+ string holds ASCII only,  *)
(* so such a text is a sequence of Unicode code points.                    *)

\* the characters of code 32..95 and 97..126, in code order
AsciiLow == " !\"#$%&'()*+,-./0123456789:;<=>?@ABCDEFGHIJKLMNOPQRSTUVWXYZ[\\]^_"

AsciiHigh == "abcdefghijklmnopqrstuvwxyz{|}~"

\* ord(c) and chr(n) of a printable ASCII character
Ord(c) ==
    IF \E i \in 1..Len(AsciiLow) : CharAt(AsciiLow, i) = c
    THEN 31 + (CHOOSE i \in 1..Len(AsciiLow) : CharAt(AsciiLow, i) = c)
    ELSE 96 + (CHOOSE i \in 1..Len(AsciiHigh) : CharAt(AsciiHigh, i) = c)

Chr(n) == IF n <= 95 THEN CharAt(AsciiLow, n - 31) ELSE CharAt(AsciiHigh, n - 96)

\* the code points of an ASCII string
Points(s) == [i \in 1..Len(s) |-> Ord(CharAt(s, i))]

RECURSIVE Chars(_)
\* the string of a sequence of printable ASCII code points
Chars(points) == IF points = <<>> THEN "" ELSE Chr(Head(points)) \o Chars(Tail(points))

\* str.lower() of one character: A-Z and the capital letters of Latin-1 move
\* up by 32; U+0130 (capital I with dot above) becomes i followed by the
\* combining dot U+0307; U+212A (Kelvin sign) becomes k; the other
\* characters used here have no lower-case form
LowerPoint(c) ==
    IF c \in 65..90 \/ c \in (192..222) \ {215} THEN <<c + 32>>
    ELSE IF c = 304 THEN <<105, 775>>
    ELSE IF c = 8490 THEN <<107>>
    ELSE <<c>>

RECURSIVE LowerPoints(_)
LowerPoints(points) ==
    IF points = <<>> THEN <<>> ELSE LowerPoint(Head(points)) \o LowerPoints(Tail(points))

\* the code points of the class [a-zA-Z0-9_]
TokenPoints == (48..57) \cup (65..90) \cup {95} \cup (97..122)

RECURSIVE FindAllPoints(_, _, _, _)
FindAllPoints(points, i, cur, acc) ==
    IF i > Len(points)
    THEN IF cur = <<>> THEN acc ELSE Append(acc, Chars(cur))
    ELSE IF points[i] \in TokenPoints
         THEN FindAllPoints(points, i + 1, Append(cur, points[i]), acc)
         ELSE FindAllPoints(points, i + 1, <<>>,
                            IF cur = <<>> THEN acc ELSE Append(acc, Chars(cur)))

\* variant: the text is not lower-cased
tokenize_text_NotLowered(points) == FindAllPoints(points, 1, <<>>, <<>>)

\* TOKEN_RE.findall(text.lower()); the tokens are ASCII strings
tokenize_text(points) == FindAllPoints(LowerPoints(points), 1, <<>>, <<>>)

----------------------------------------------------------------------------
(* Exact arithmetic for scores.  A natural number of any size is a         *)
(* little-endian sequence of limbs below LimbBase with no leading zero     *)
(* limb; <<>> is 0.                                                        *)

LimbBase == 100 * 100

RECURSIVE BigFromNat(_)
BigFromNat(n) ==
    IF n = 0 THEN <<>> ELSE <<n % LimbBase>> \o BigFromNat(n \div LimbBase)

RECURSIVE BigTimesFrom(_, _, _, _)
BigTimesFrom(b, k, i, carry) ==
    IF i > Len(b)
    THEN BigFromNat(carry)
    ELSE LET t == b[i] * k + carry
         IN  <<t % LimbBase>> \o BigTimesFrom(b, k, i + 1, t \div LimbBase)

\* b * k for a machine-size k >= 0
BigTimes(b, k) == IF k = 0 \/ b = <<>> THEN <<>> ELSE BigTimesFrom(b, k, 1, 0)

RECURSIVE BigTimesAll(_, _, _)
BigTimesAll(b, ks, i) ==
    IF i > Len(ks) THEN b ELSE BigTimesAll(BigTimes(b, ks[i]), ks, i + 1)

RECURSIVE BigPow100(_, _)
BigPow100(b, e) == IF e = 0 THEN b ELSE BigPow100(BigTimes(b, 100), e - 1)

RECURSIVE BigLessFrom(_, _, _)
BigLessFrom(a, b, i) ==
    IF i = 0 THEN FALSE
    ELSE IF a[i] # b[i] THEN a[i] < b[i]
    ELSE BigLessFrom(a, b, i - 1)

BigLess(a, b) ==
    IF Len(a) # Len(b) THEN Len(a) < Len(b) ELSE BigLessFrom(a, b, Len(a))

(* A score is +-num / (10 * q * 100^e): q is the number of distinct query  *)
(* tokens (the denominator of coverage), e the number of percent factors   *)
(* multiplied in.  float 0.0 is ZeroScore.                                 *)
ZeroScore == [neg |-> FALSE, num |-> <<>>, q |-> 1, e |-> 0]

Abs(n) == IF n < 0 THEN 0 - n ELSE n

Max2(a, b) == IF a >= b THEN a ELSE b

Min2(a, b) == IF a <= b THEN a ELSE b

\* raw / (10 * q), multiplied by pct/100 for every pct of factors
MakeScore(raw, q, factors) ==
    [neg |-> (raw < 0) # (Cardinality({i \in DOMAIN factors : factors[i] < 0}) % 2 = 1),
     num |-> BigTimesAll(BigFromNat(Abs(raw)), [i \in DOMAIN factors |-> Abs(factors[i])], 1),
     q   |-> q,
     e   |-> Len(factors)]

ScoreSign(a) == IF a.num = <<>> THEN 0 ELSE IF a.neg THEN 0 - 1 ELSE 1

\* |a| over the denominator 10 * a.q * b.q * 100^Max2(a.e, b.e)
ScoreNumOver(a, b) == BigPow100(BigTimes(a.num, b.q), Max2(a.e, b.e) - a.e)

ScoreLess(a, b) ==
    IF ScoreSign(a) # ScoreSign(b) THEN ScoreSign(a) < ScoreSign(b)
    ELSE IF ScoreSign(a) = 1 THEN BigLess(ScoreNumOver(a, b), ScoreNumOver(b, a))
    ELSE IF ScoreSign(a) = 0 THEN FALSE
    ELSE BigLess(ScoreNumOver(b, a), ScoreNumOver(a, b))

ScoreEq(a, b) ==
    ScoreSign(a) = ScoreSign(b) /\ ScoreNumOver(a, b) = ScoreNumOver(b, a)

\* score > 0
ScorePositive(a) == ScoreSign(a) = 1

----------------------------------------------------------------------------
(* Records: the JSON objects of the index (make_record writes them,        *)
(* load_index reads them back).  Every key holds a tagged JSON value.      *)

Absent == [kind |-> "absent", text |-> "", items |-> <<>>]

Null == [kind |-> "null", text |-> "", items |-> <<>>]

Str(s) == [kind |-> "str", text |-> s, items |-> <<>>]

List(xs) == [kind |-> "list", text |-> "", items |-> xs]

\* str(x) of a JSON value; of a list, Python's repr of a list of strings
PyStr(v) ==
    CASE v.kind = "str"  -> v.text
      [] v.kind = "null" -> "None"
      [] v.kind = "list" ->
            "[" \o Join([i \in DOMAIN v.items |-> "'" \o v.items[i] \o "'"], ", ") \o "]"
      [] OTHER -> ""

\* str(record.get(key, ""))
GetStr(record, key) == PyStr(IF record[key].kind = "absent" THEN Str("") ELSE record[key])

\* the items iterated by `for item in record.get("tags", [])`, each under str();
\* a string is iterated character by character
TagItems(record) ==
    CASE record.tags.kind = "list" -> record.tags.items
      [] record.tags.kind = "str"  ->
            [i \in 1..Len(record.tags.text) |-> CharAt(record.tags.text, i)]
      [] OTHER -> <<>>

----------------------------------------------------------------------------
(* retrieval_scoring.py: the keyword and weight tables                     *)

STOPWORDS ==
    {"a", "an", "and", "are", "as", "at", "be", "by", "do", "for", "from", "how",
     "i", "in", "is", "it", "of", "on", "or", "our", "should", "that", "the",
     "this", "to", "use", "we", "what", "where", "which", "with"}

NOISE_PATH_HINTS ==
    {"/thirdparty/", "/third-party/", "/extern/", "/external/", "/vendor/",
     "/deps/", "/.github/", "/wayland/", "/glfw/"}

CODEX_HINTS ==
    {"codex", "agent", "agents", "verified", "inference", "skill", "skills",
     "answer", "answers", "contract", "priority"}

PIPELINE_HINTS ==
    {"command", "commands", "script", "scripts", "refresh", "sync", "index",
     "pipeline", "query"}

BENCHMARK_HINTS ==
    {"benchmark", "benchmarks", "eval", "evaluation", "experiment", "experiments",
     "stretch", "design", "documented", "question", "questions", "threshold",
     "thresholds"}

SITE_HINTS ==
    {"site", "website", "page", "pages", "html", "examples", "example",
     "methodology", "payload"}

VERIFICATION_HINTS == {"verify", "verification", "coverage", "blocked", "lock", "status"}

CODE_EXAMPLE_HINTS ==
    {"source", "file", "files", "example", "examples", "ros2", "cpp", "python",
     "low", "level"}

MANIFEST_HINTS == {"manifest", "catalog", "snapshot", "scope"}

SIM2REAL_HINTS == {"sim2sim", "sim2real", "simulation", "real", "stages", "stage"}

\* SOURCE_BOOST.get(source_type, 1.0), in percent
SOURCE_BOOST(source_type) ==
    CASE source_type = "support_doc"     -> 140
      [] source_type = "curated_doc"     -> 130
      [] source_type = "skill_doc"       -> 145
      [] source_type = "source_manifest" -> 110
      [] source_type = "repo_file"       -> 95
      [] source_type = "project_doc"     -> 155
      [] source_type = "project_script"  -> 135
      [] source_type = "benchmark_spec"  -> 130
      [] source_type = "site_doc"        -> 120
      [] source_type = "site_data"       -> 120
      [] OTHER -> 100

----------------------------------------------------------------------------
(* retrieval_scoring.py: normalize_query_tokens, classify_query_intent     *)

\* variant: no fallback when the stopword filter leaves nothing
normalize_query_tokens_NoFallback(q) ==
    SelectSeq(tokenize(q), LAMBDA tok : Len(tok) > 1 /\ tok \notin STOPWORDS)

normalize_query_tokens(q) ==
    LET raw      == tokenize(q)
        filtered == SelectSeq(raw, LAMBDA tok : Len(tok) > 1 /\ tok \notin STOPWORDS)
        fallback == SelectSeq(raw, LAMBDA tok : Len(tok) > 1)
    IN  IF raw = <<>> THEN <<>>
        ELSE IF filtered # <<>> THEN filtered
        ELSE IF fallback # <<>> THEN fallback
        ELSE raw

\* variant: the checks are chained with elif, the first hit decides
classify_query_intent_FirstHitOnly(query_tokens) ==
    LET token_set == Range(query_tokens)
    IN  IF token_set \cap CODEX_HINTS # {} THEN {"codex"}
        ELSE IF token_set \cap PIPELINE_HINTS # {} THEN {"pipeline"}
        ELSE IF token_set \cap BENCHMARK_HINTS # {} THEN {"benchmark"}
        ELSE IF token_set \cap SITE_HINTS # {} THEN {"site"}
        ELSE IF token_set \cap VERIFICATION_HINTS # {} THEN {"verification"}
        ELSE IF token_set \cap CODE_EXAMPLE_HINTS # {} THEN {"code_example"}
        ELSE IF token_set \cap MANIFEST_HINTS # {} THEN {"manifest"}
        ELSE IF token_set \cap SIM2REAL_HINTS # {} THEN {"sim2real"}
        ELSE {}

classify_query_intent(query_tokens) ==
    LET token_set == Range(query_tokens)
    IN  (IF token_set \cap CODEX_HINTS # {} THEN {"codex"} ELSE {})
        \cup (IF token_set \cap PIPELINE_HINTS # {} THEN {"pipeline"} ELSE {})
        \cup (IF token_set \cap BENCHMARK_HINTS # {} THEN {"benchmark"} ELSE {})
        \cup (IF token_set \cap SITE_HINTS # {} THEN {"site"} ELSE {})
        \cup (IF token_set \cap VERIFICATION_HINTS # {} THEN {"verification"} ELSE {})
        \cup (IF token_set \cap CODE_EXAMPLE_HINTS # {} THEN {"code_example"} ELSE {})
        \cup (IF token_set \cap MANIFEST_HINTS # {} THEN {"manifest"} ELSE {})
        \cup (IF token_set \cap SIM2REAL_HINTS # {} THEN {"sim2real"} ELSE {})

----------------------------------------------------------------------------
(* retrieval_scoring.py: _path_has_noise, score_record                     *)

\* variant: the hints are looked for without their slashes
_path_has_noise_AnySubstring(path, title) ==
    \/ title \in {"license", "license.txt", "copying"}
    \/ \E hint \in NOISE_PATH_HINTS : Contains(path, StripChars(hint, {"/"}))
    \/ EndsWith(path, "/license")
    \/ EndsWith(path, "/license.txt")

_path_has_noise(path, title) ==
    \/ title \in {"license", "license.txt", "copying"}
    \/ LET path_norm == "/" \o StripChars(path, {"/"}) \o "/"
       IN  \E hint \in NOISE_PATH_HINTS : Contains(path_norm, hint)
    \/ EndsWith(path, "/license")
    \/ EndsWith(path, "/license.txt")

\* Counter(tokens).get(tok, 0)
Count(tokens, tok) == Cardinality({i \in DOMAIN tokens : tokens[i] = tok})

RECURSIVE SumHits_Uncapped(_, _, _)
\* variant: the occurrences are summed without the cap
SumHits_Uncapped(toks, tokens, cap) ==
    IF toks = {} THEN 0
    ELSE LET tok == CHOOSE t \in toks : TRUE
         IN  Count(tokens, tok) + SumHits_Uncapped(toks \ {tok}, tokens, cap)

RECURSIVE SumHits(_, _, _)
\* sum(min(Counter(tokens).get(tok, 0), cap) for tok in toks)
SumHits(toks, tokens, cap) ==
    IF toks = {} THEN 0
    ELSE LET tok == CHOOSE t \in toks : TRUE
         IN  Min2(Count(tokens, tok), cap) + SumHits(toks \ {tok}, tokens, cap)

\* the lower-cased fields score_record reads (lines 226-230)
Fields(record) ==
    [content     |-> Lower(GetStr(record, "content")),
     title       |-> Lower(GetStr(record, "title")),
     tags        |-> Lower(Join(TagItems(record), " ")),
     path        |-> Lower(GetStr(record, "path")),
     source_type |-> Lower(GetStr(record, "source_type")),
     record_tags |-> {Lower(tag) : tag \in Range(TagItems(record))}]

\* the fast rejects of lines 223-253
FastReject(query_tokens, f) ==
    \/ query_tokens = <<>>
    \/ f.content = "" /\ f.title = "" /\ f.path = ""
    \/ tokenize(f.content) = <<>> /\ tokenize(f.title) = <<>> /\ tokenize(f.path) = <<>>
    \/ Range(query_tokens)
         \cap (Range(tokenize(f.content)) \cup Range(tokenize(f.title))
               \cup Range(tokenize(f.tags)) \cup Range(tokenize(f.path))) = {}

\* variant: the phrase is made of all the query tokens
PhraseBonus_AllTokens(query_tokens, f) ==
    LET phrase == Join(query_tokens, " ")
    IN  IF phrase = "" THEN 0
        ELSE (IF Contains(f.content, phrase) THEN 15 ELSE 0)
             + (IF Contains(f.path, phrase) THEN 20 ELSE 0)

\* phrase_bonus, in tenths (lines 269-275)
PhraseBonus(query_tokens, f) ==
    LET phrase == Join(SubSeq(query_tokens, 1, Min2(3, Len(query_tokens))), " ")
    IN  IF phrase = "" THEN 0
        ELSE (IF Contains(f.content, phrase) THEN 15 ELSE 0)
             + (IF Contains(f.path, phrase) THEN 20 ELSE 0)

\* variant: the coverage terms are subtracted instead of added
RawScore_CoverageSubtracted(query_tokens, f) ==
    LET query_set   == Range(query_tokens)
        overlap_all == query_set \cap (Range(tokenize(f.content)) \cup Range(tokenize(f.title))
                                       \cup Range(tokenize(f.tags)) \cup Range(tokenize(f.path)))
        n           == Max2(Cardinality(query_set), 1)
    IN  SumHits(query_set, tokenize(f.content), 5) * 10 * n
        + SumHits(query_set, tokenize(f.title), 3) * 31 * n
        + SumHits(query_set, tokenize(f.tags), 2) * 24 * n
        + SumHits(query_set, tokenize(f.path), 3) * 28 * n
        - Cardinality(overlap_all) * 70
        - Cardinality(query_set \cap Range(tokenize(f.path))) * 40

\* raw_score * 10 * len(query_set) (lines 255-285)
RawScore(query_tokens, f) ==
    LET query_set      == Range(query_tokens)
        content_tokens == tokenize(f.content)
        title_tokens   == tokenize(f.title)
        tag_tokens     == tokenize(f.tags)
        path_tokens    == tokenize(f.path)
        overlap_all    == query_set \cap (Range(content_tokens) \cup Range(title_tokens)
                                          \cup Range(tag_tokens) \cup Range(path_tokens))
        path_overlap   == query_set \cap Range(path_tokens)
        n              == Max2(Cardinality(query_set), 1)
        content_hits   == SumHits(query_set, content_tokens, 5)
        title_hits     == SumHits(query_set, title_tokens, 3)
        tag_hits       == SumHits(query_set, tag_tokens, 2)
        path_hits      == SumHits(query_set, path_tokens, 3)
    IN  content_hits * 10 * n
        + title_hits * 31 * n
        + tag_hits * 24 * n
        + path_hits * 28 * n
        + Cardinality(overlap_all) * 70
        + Cardinality(path_overlap) * 40
        + PhraseBonus(query_tokens, f) * n

\* variant: the tag of unverified support pages is not looked at
SourceBoost_TagIgnored(f) == <<SOURCE_BOOST(f.source_type)>>

\* source_boost, as the percent factors multiplied in (lines 287-290)
SourceBoost(f) ==
    <<SOURCE_BOOST(f.source_type)>>
    \o (IF "support_unverified" \in f.record_tags THEN <<35>> ELSE <<>>)

\* path_boost (lines 292-306)
PathBoost(f) ==
    IF f.path = "agents.md" THEN <<200>>
    ELSE IF StartsWith(f.path, "skills/unitree-g1-expert") THEN <<170>>
    ELSE IF StartsWith(f.path, "docs/verification") THEN <<135>>
    ELSE IF StartsWith(f.path, "scripts/") THEN <<130>>
    ELSE IF StartsWith(f.path, "benchmarks/") THEN <<125>>
    ELSE IF StartsWith(f.path, "site/") THEN <<120>>
    ELSE IF StartsWith(f.path, "sources/") THEN <<125>>
    ELSE <<>>

\* variant: every record outside site/ is dampened, whatever its source type
SiteIntent_DampensAllOthers(query_intents, f) ==
    IF "site" \in query_intents
    THEN IF StartsWith(f.path, "site/") THEN <<180>> ELSE <<75>>
    ELSE <<>>

\* the site intent (lines 331-335)
SiteIntent(query_intents, f) ==
    IF "site" \in query_intents
    THEN IF StartsWith(f.path, "site/") THEN <<180>>
         ELSE IF f.source_type = "repo_file" THEN <<75>>
         ELSE <<>>
    ELSE <<>>

\* intent_boost (lines 308-372)
IntentBoost(query_tokens, query_intents, f) ==
    LET path        == f.path
        source_type == f.source_type
        token_set   == Range(query_tokens)
    IN  (IF "codex" \in query_intents
         THEN IF path = "agents.md" \/ StartsWith(path, "skills/unitree-g1-expert")
              THEN <<160>>
              ELSE IF StartsWith(path, "scripts/") \/ StartsWith(path, "docs/verification")
              THEN <<125>>
              ELSE IF source_type = "repo_file" THEN <<78>>
              ELSE <<>>
         ELSE <<>>)
        \o (IF "pipeline" \in query_intents
            THEN IF StartsWith(path, "scripts/") THEN <<150>>
                 ELSE IF StartsWith(path, "docs/pipelines") THEN <<130>>
                 ELSE <<>>
            ELSE <<>>)
        \o (IF "benchmark" \in query_intents
            THEN (IF StartsWith(path, "benchmarks/") THEN <<150>>
                  ELSE IF StartsWith(path, "docs/verification") THEN <<130>>
                  ELSE <<>>)
                 \o (IF path = "agents.md" \/ StartsWith(path, "skills/unitree-g1-expert")
                     THEN <<70>>
                     ELSE <<>>)
            ELSE <<>>)
        \o SiteIntent(query_intents, f)
        \o (IF "verification" \in query_intents /\ StartsWith(path, "docs/verification")
            THEN <<140>>
            ELSE <<>>)
        \o (IF "code_example" \in query_intents
            THEN IF StartsWith(path, "data/repos/") THEN <<170>>
                 ELSE IF StartsWith(path, "skills/") THEN <<80>>
                 ELSE <<>>
            ELSE <<>>)
        \o (IF "manifest" \in query_intents
            THEN IF StartsWith(path, "sources/") \/ source_type = "source_manifest"
                 THEN <<190>>
                 ELSE IF StartsWith(path, "scripts/") THEN <<90>>
                 ELSE <<>>
            ELSE <<>>)
        \o (IF "sim2real" \in query_intents /\ StartsWith(path, "docs/pipelines/")
            THEN <<160>>
            ELSE <<>>)
        \o (IF source_type = "benchmark_spec" /\ "benchmark" \notin query_intents
            THEN <<40>>
            ELSE <<>>)
        \o (IF source_type = "site_data" /\ "site" \in query_intents
            THEN <<150>>
            ELSE <<>>)
        \o (IF {"ros2", "low", "level"} \cap token_set # {}
               /\ StartsWith(path, "data/repos/unitree_ros2/")
            THEN <<190>>
            ELSE <<>>)
        \o (IF {"payload", "website", "site"} \cap token_set # {}
            THEN IF path = "site/data/benchmark_examples.json" THEN <<240>>
                 ELSE IF path = "scripts/build_site.py" THEN <<190>>
                 ELSE <<>>
            ELSE <<>>)
        \o (IF {"catalog", "manifest"} \cap token_set # {} /\ StartsWith(path, "sources/")
            THEN <<200>>
            ELSE <<>>)

\* variant: coverage < 0.10
LowCoverage_BelowTenth(query_tokens, f) ==
    LET query_set   == Range(query_tokens)
        overlap_all == query_set \cap (Range(tokenize(f.content)) \cup Range(tokenize(f.title))
                                       \cup Range(tokenize(f.tags)) \cup Range(tokenize(f.path)))
    IN  Cardinality(overlap_all) * 100 < 10 * Max2(Cardinality(query_set), 1)

\* coverage < 0.20, coverage being len(overlap_all) / max(len(query_set), 1)
LowCoverage(query_tokens, f) ==
    LET query_set   == Range(query_tokens)
        overlap_all == query_set \cap (Range(tokenize(f.content)) \cup Range(tokenize(f.title))
                                       \cup Range(tokenize(f.tags)) \cup Range(tokenize(f.path)))
    IN  Cardinality(overlap_all) * 100 < 20 * Max2(Cardinality(query_set), 1)

\* variant: the low-coverage factor is left out for an unverified record
NoisePenalty_NotOnUnverified(query_tokens, f) ==
    (IF _path_has_noise(f.path, f.title) THEN <<25>> ELSE <<>>)
    \o (IF /\ Cardinality(Range(query_tokens)) >= 4
           /\ LowCoverage(query_tokens, f)
           /\ "support_unverified" \notin f.record_tags
        THEN <<55>>
        ELSE <<>>)

\* noise_penalty (lines 374-379)
NoisePenalty(query_tokens, f) ==
    (IF _path_has_noise(f.path, f.title) THEN <<25>> ELSE <<>>)
    \o (IF Cardinality(Range(query_tokens)) >= 4 /\ LowCoverage(query_tokens, f)
        THEN <<55>>
        ELSE <<>>)

\* line 228 iterates record.get("tags", []): a JSON null there raises
\* TypeError ('NoneType' object is not iterable) once the query is not empty
Raises(query_tokens, record) == query_tokens # <<>> /\ record.tags.kind = "null"

score_record(query_tokens, query_intents, record) ==
    LET f == Fields(record)
    IN  IF FastReject(query_tokens, f) THEN ZeroScore
        ELSE MakeScore(RawScore(query_tokens, f),
                       Max2(Cardinality(Range(query_tokens)), 1),
                       SourceBoost(f) \o PathBoost(f)
                       \o IntentBoost(query_tokens, query_intents, f)
                       \o NoisePenalty(query_tokens, f))

----------------------------------------------------------------------------
(* retrieval_scoring.py: Match, rank_records                               *)

Match(sc, record) == [score |-> sc, record |-> record]

\* the `continue` of line 396-397
Excluded(record, filters) ==
    filters # {} /\ GetStr(record, "source_type") \notin filters

\* variant: `score >= 0` instead of `score > 0`
Keep_ZeroToo(sc) == ScoreSign(sc) >= 0

\* the test of line 403
Keep(sc) == ScorePositive(sc)

RECURSIVE Scan(_, _, _, _, _)
\* the loop of lines 395-404: the matches appended, in input order
Scan(records, tokens, intents, filters, i) ==
    IF i > Len(records) THEN <<>>
    ELSE LET sc == score_record(tokens, intents, records[i])
         IN  (IF ~Excluded(records[i], filters) /\ Keep(sc)
              THEN <<Match(sc, records[i])>>
              ELSE <<>>)
             \o Scan(records, tokens, intents, filters, i + 1)

\* variant: an item goes ahead of the items of equal score (the order of ties
\* is reversed, as by sorting ascending and reversing the list)
InsertSorted_TiesReversed(sorted, item) ==
    LET ahead == {j \in 1..Len(sorted) : ScoreLess(item.score, sorted[j].score)}
        n     == IF ahead = {} THEN 0 ELSE CHOOSE j \in ahead : \A k \in ahead : k <= j
    IN  SubSeq(sorted, 1, n) \o <<item>> \o SubSeq(sorted, n + 1, Len(sorted))

\* where list.sort(key=score, reverse=True) puts an item among the already
\* sorted ones: behind every item that does not score lower (the sort is stable)
InsertSorted(sorted, item) ==
    LET ahead == {j \in 1..Len(sorted) : ~ScoreLess(sorted[j].score, item.score)}
        n     == IF ahead = {} THEN 0 ELSE CHOOSE j \in ahead : \A k \in ahead : k <= j
    IN  SubSeq(sorted, 1, n) \o <<item>> \o SubSeq(sorted, n + 1, Len(sorted))

RECURSIVE SortFrom(_, _, _)
SortFrom(items, i, sorted) ==
    IF i > Len(items) THEN sorted
    ELSE SortFrom(items, i + 1, InsertSorted(sorted, items[i]))

\* ranked.sort(key=lambda item: item.score, reverse=True)
SortByScore(items) == SortFrom(items, 1, <<>>)

\* variant: items[:k + 1]
SliceTo_OneMore(items, k) ==
    IF k + 1 >= 0 THEN SubSeq(items, 1, Min2(k + 1, Len(items)))
    ELSE SubSeq(items, 1, Max2(Len(items) + k + 1, 0))

\* items[:k]
SliceTo(items, k) ==
    IF k >= 0 THEN SubSeq(items, 1, Min2(k, Len(items)))
    ELSE SubSeq(items, 1, Max2(Len(items) + k, 0))

\* variant: `ranked` is not a fresh list, the matches of the call before stay
\* in it
rank_records_KeepsEarlierMatches(records, q, k, filters) ==
    LET tokens  == normalize_query_tokens(q)
        intents == classify_query_intent(tokens)
    IN  SliceTo(SortByScore(ranked \o Scan(records, tokens, intents, filters, 1)), k)

rank_records(records, q, k, filters) ==
    LET tokens  == normalize_query_tokens(q)
        intents == classify_query_intent(tokens)
    IN  SliceTo(SortByScore(Scan(records, tokens, intents, filters, 1)), k)

----------------------------------------------------------------------------
(* query_index.py: tokenize, score, and the ranking loop of main           *)

\* re.findall(r"[a-zA-Z0-9_]+", text.lower())
query_index_tokenize(text) == FindAll(Lower(text), 1, "", <<>>)

\* the source_boost table of score (lines 68-74)
query_index_source_boost(source_type) ==
    CASE source_type = "support_doc"     -> 130
      [] source_type = "curated_doc"     -> 120
      [] source_type = "skill_doc"       -> 110
      [] source_type = "source_manifest" -> 65
      [] source_type = "repo_file"       -> 100
      [] OTHER -> 100

\* "support_unverified" in record.get("tags", [])
query_index_unverified(record) ==
    CASE record.tags.kind = "list" -> "support_unverified" \in Range(record.tags.items)
      [] record.tags.kind = "str"  -> Contains(record.tags.text, "support_unverified")
      [] OTHER -> FALSE

\* score(query_tokens, record) of query_index.py (lines 33-85)
query_index_score(query_tokens, record) ==
    LET content        == Lower(GetStr(record, "content"))
        title          == Lower(GetStr(record, "title"))
        tags           == Lower(Join(TagItems(record), " "))
        content_tokens == query_index_tokenize(content)
        title_tokens   == query_index_tokenize(title)
        tag_tokens     == query_index_tokenize(tags)
        query_set      == Range(query_tokens)
        overlap        == query_set \cap (Range(content_tokens) \cup Range(title_tokens)
                                          \cup Range(tag_tokens))
        n              == Max2(Cardinality(query_set), 1)
        phrase         == Join(SubSeq(query_tokens, 1, Min2(4, Len(query_tokens))), " ")
        phrase_bonus   == IF phrase # "" /\ Contains(content, phrase) THEN 20 ELSE 0
        raw            == SumHits(query_set, content_tokens, 5) * 10 * n
                          + SumHits(query_set, title_tokens, 3) * 22 * n
                          + SumHits(query_set, tag_tokens, 2) * 16 * n
                          + Cardinality(overlap) * 80
                          + phrase_bonus * n
    IN  IF query_tokens = <<>> THEN ZeroScore
        ELSE IF content = "" /\ title = "" THEN ZeroScore
        ELSE IF content_tokens = <<>> /\ title_tokens = <<>> THEN ZeroScore
        ELSE MakeScore(raw, n,
                       <<query_index_source_boost(GetStr(record, "source_type"))>>
                       \o (IF query_index_unverified(record) THEN <<35>> ELSE <<>>))

\* the `continue` of main, lines 130-131: record.get("source_type") is
\* compared as it is, None when the key is missing or null
query_index_excluded(record, filters) ==
    /\ filters # {}
    /\ \/ record.source_type.kind # "str"
       \/ record.source_type.text \notin filters

RECURSIVE query_index_scan(_, _, _, _)
\* the loop of main, lines 125-134: the (score, record) pairs appended
query_index_scan(records, query_tokens, filters, i) ==
    IF i > Len(records) THEN <<>>
    ELSE LET s == query_index_score(query_tokens, records[i])
         IN  (IF ~query_index_excluded(records[i], filters) /\ ScorePositive(s)
              THEN <<Match(s, records[i])>>
              ELSE <<>>)
             \o query_index_scan(records, query_tokens, filters, i + 1)

\* ranked = sorted(results, key=lambda x: x[0], reverse=True)[: args.top_k]
query_index_ranked(records, question, k, filters) ==
    SliceTo(SortByScore(query_index_scan(records, query_index_tokenize(question),
                                         filters, 1)), k)

----------------------------------------------------------------------------
(* eval_retrieval.py: path_matches_patterns, filter_leaky_records,         *)
(* dedupe_matches                                                          *)

path_matches_patterns(path, patterns) ==
    /\ path # ""
    /\ patterns # <<>>
    /\ \E i \in DOMAIN patterns : Contains(Lower(path), Lower(patterns[i]))

\* Path.resolve().as_posix() of a relative path: the working directory in front
Resolve(benchmark_path, cwd) ==
    IF StartsWith(benchmark_path, "/") THEN benchmark_path
    ELSE cwd \o "/" \o benchmark_path

filter_leaky_records(records, benchmark_path, cwd, expected_patterns) ==
    LET bench_rel == Lower(benchmark_path)
        bench_abs == Lower(Resolve(benchmark_path, cwd))
        Leaky(record) ==
            LET path == Lower(GetStr(record, "path"))
            IN  /\ path # ""
                /\ Contains(path, bench_rel) \/ Contains(path, bench_abs)
                /\ ~path_matches_patterns(path, expected_patterns)
    IN  SelectSeq(records, LAMBDA record : ~Leaky(record))

\* key = path or url or rid (lines 65-68)
DedupeKey(record) ==
    LET path == Strip(GetStr(record, "path"))
        url  == Strip(GetStr(record, "url"))
        rid  == Strip(GetStr(record, "id"))
    IN  IF path # "" THEN path ELSE IF url # "" THEN url ELSE rid

RECURSIVE DedupeFrom(_, _, _, _, _)
\* the loop of lines 64-74
DedupeFrom(matches, k, i, out, seen) ==
    IF i > Len(matches) THEN out
    ELSE LET key == DedupeKey(matches[i].record)
         IN  IF key = "" \/ key \in seen
             THEN DedupeFrom(matches, k, i + 1, out, seen)
             ELSE IF Len(out) + 1 >= k
                  THEN Append(out, matches[i])
                  ELSE DedupeFrom(matches, k, i + 1, Append(out, matches[i]),
                                  seen \cup {key})

dedupe_matches(matches, k) == DedupeFrom(matches, k, 1, <<>>, {})

\* rank_records(..., top_k=args.top_k * 6) (line 201)
OverFetch == 6

----------------------------------------------------------------------------
(* build_knowledge_index.py: make_record and the chunk loops that call it  *)

DigitChars == <<"0","1","2","3","4","5","6","7","8","9">>

RECURSIVE Decimal(_)
Decimal(n) ==
    IF n < 10 THEN DigitChars[n + 1] ELSE Decimal(n \div 10) \o DigitChars[(n % 10) + 1]

RECURSIVE ZeroPad(_, _)
ZeroPad(s, width) == IF Len(s) >= width THEN s ELSE ZeroPad("0" \o s, width)

\* f"{idx:04d}"
Format04d(idx) == ZeroPad(Decimal(idx), 4)

\* the keys of the payload that the retrieval core reads; path and url are
\* written as given (None becomes JSON null), tags as `tags or []`
make_record(rec_id, title, source_type, text, path, url, tags) ==
    [id          |-> Str(rec_id),
     title       |-> Str(title),
     source_type |-> Str(source_type),
     path        |-> path,
     url         |-> url,
     tags        |-> List(tags),
     content     |-> Str(text)]

\* for idx, chunk in enumerate(chunks): records.append(make_record(...))
ChunkRecords(src, chunks) ==
    [i \in 1..Len(chunks) |->
        make_record(src.rec_prefix \o ":chunk-" \o Format04d(i - 1), src.title,
                    src.source_type, chunks[i], src.path, src.url, src.tags)]

----------------------------------------------------------------------------
(* eval_retrieval.py: match_pattern_rank, evaluate_case_matches            *)

\* f"{path}\n{url}".lower() of a match (lines 81-83)
MatchTarget(item) ==
    Lower(GetStr(item.record, "path") \o "\n" \o GetStr(item.record, "url"))

\* the 1-based rank of the first result the pattern is found in; 0 is None
match_pattern_rank(results, pattern) ==
    LET hits == {idx \in DOMAIN results : Contains(MatchTarget(results[idx]), Lower(pattern))}
    IN  IF hits = {} THEN 0 ELSE CHOOSE idx \in hits : \A other \in hits : idx <= other

RECURSIVE RankedKeys(_, _, _, _)
\* the keys of the dict filled by the loops of lines 97-107, in insertion
\* order: a pattern listed twice is one key
RankedKeys(results, patterns, i, keys) ==
    IF i > Len(patterns) THEN keys
    ELSE RankedKeys(results, patterns, i + 1,
                    IF match_pattern_rank(results, patterns[i]) # 0
                       /\ patterns[i] \notin Range(keys)
                    THEN Append(keys, patterns[i])
                    ELSE keys)

\* str(n) of an int
PyInt(n) == IF n < 0 THEN "-" \o Decimal(0 - n) ELSE Decimal(n)

\* min(expected_ranks, key=expected_ranks.get): the first key of least rank
BestPattern(results, keys) ==
    LET least == CHOOSE i \in DOMAIN keys :
                    \A j \in DOMAIN keys :
                       \/ match_pattern_rank(results, keys[i]) < match_pattern_rank(results, keys[j])
                       \/ /\ match_pattern_rank(results, keys[i]) = match_pattern_rank(results, keys[j])
                          /\ i <= j
    IN  keys[least]

\* the returned tuple; in the reason text the backquotes the code puts around
\* the best pattern are left out
evaluate_case_matches(results, expected_patterns, forbidden_patterns, require_all, max_hits) ==
    LET expected_ranks   == RankedKeys(results, expected_patterns, 1, <<>>)
        forbidden_ranks  == RankedKeys(results, forbidden_patterns, 1, <<>>)
        matched_expected == Len(expected_ranks)
        expected_total   == Len(expected_patterns)
        forbidden_hits   == Len(forbidden_ranks)
        expected_ok      == IF require_all THEN matched_expected = expected_total
                            ELSE matched_expected > 0 \/ expected_total = 0
        forbidden_ok     == forbidden_hits <= max_hits
        reason           ==
            IF ~expected_ok
            THEN IF require_all
                 THEN "matched " \o PyInt(matched_expected) \o "/" \o PyInt(expected_total)
                      \o " expected patterns"
                 ELSE "no expected path pattern found in top-k"
            ELSE IF ~forbidden_ok
            THEN "matched " \o PyInt(forbidden_hits) \o " forbidden patterns (limit "
                 \o PyInt(max_hits) \o ")"
            ELSE IF expected_ranks # <<>>
            THEN "matched pattern " \o BestPattern(results, expected_ranks) \o " at rank "
                 \o PyInt(match_pattern_rank(results, BestPattern(results, expected_ranks)))
            ELSE "no expected patterns"
    IN  [passed           |-> expected_ok /\ forbidden_ok,
         reason           |-> reason,
         matched_expected |-> matched_expected,
         expected_total   |-> expected_total,
         forbidden_hits   |-> forbidden_hits]

----------------------------------------------------------------------------
(* Bounds and input samples.                                               *)

MaxRecords == 3      \* records in the collection given to rank_records

MaxTopK == 3         \* rank_records is called with top_k in -MaxTopK..MaxTopK

MaxIntents == 1      \* size of the intent sets given to score_record directly

MaxEvalTopK == 2     \* the evaluation runs with --top-k in 1..MaxEvalTopK

MaxFiles == 2        \* sources ingested into the evaluated index

MaxCalls == 3        \* calls of rank_records on one loaded collection

MaxWords == 3        \* words of a query given to normalize_query_tokens

MaxPieces == 3       \* pieces a text given to tokenize is made of

Intents ==
    {"codex", "pipeline", "benchmark", "site", "verification", "code_example",
     "manifest", "sim2real"}

NoRecord ==
    [id |-> Absent, title |-> Absent, source_type |-> Absent, path |-> Absent,
     url |-> Absent, tags |-> Absent, content |-> Absent]

\* injective sequences of at most n elements of S
RECURSIVE SeqsUpTo(_, _)
SeqsUpTo(S, n) ==
    IF n = 0 THEN {<<>>}
    ELSE LET shorter == SeqsUpTo(S, n - 1)
         IN  shorter \cup {Append(t, x) : t \in {u \in shorter : Len(u) = n - 1},
                                          x \in S}

Injective(t) == \A i, j \in DOMAIN t : i # j => t[i] # t[j]

(* The collection ranked by the query tool: one chunk each of five sources. *)
RA ==
    make_record("repo:unitree_ros2:example/low_level.cpp:chunk-0000", "low_level.cpp",
                "repo_file", "ros2 low level control example",
                Str("data/repos/unitree_ros2/example/low_level.cpp"),
                Str("https://github.com/unitreerobotics/unitree_ros2"), <<"ros2">>)

RB ==
    make_record("project:README.md:chunk-0000", "README.md", "project_doc", "control",
                Str("README.md"), Null, <<>>)

RC ==
    make_record("project:NOTES.md:chunk-0000", "NOTES.md", "project_doc", "control",
                Str("NOTES.md"), Null, <<>>)

RD ==
    make_record("project:site/data/benchmark_examples.json:chunk-0000",
                "benchmark_examples.json", "site_data", "site payload",
                Str("site/data/benchmark_examples.json"), Null, <<"site">>)

RE ==
    make_record("support:g1:chunk-0000", "G1 SDK", "support_doc",
                "UNVERIFIED SUPPORT PAGE. control", Null,
                Str("https://support.unitree.com/g1"), <<"support", "support_unverified">>)

RecordPool == {RA, RB, RC, RD, RE}

Indexes == {t \in SeqsUpTo(RecordPool, MaxRecords) : Injective(t)}

Queries == {"ros2 low level control", "How is the site payload?", "Control site", ""}

TopKs == (0 - MaxTopK)..MaxTopK

SourceFilters == {{}, {"repo_file", "project_doc"}}

(* The arguments given to score_record directly.                           *)
ScoreTokens ==
    {<<>>, <<"none">>, <<"site", "payload">>,
     <<"ros2", "low", "level", "control", "low">>,
     <<"sync", "index", "query", "design", "catalog", "arm">>}

IntentSets == {S \in SUBSET Intents : Cardinality(S) <= MaxIntents}

ScorePaths ==
    {Absent, Null, Str("AGENTS.md"), Str("scripts/build_site.py"),
     Str("data/repos/unitree_ros2/example/low_level.cpp"),
     Str("data/repos/mujoco/deps/LICENSE")}

ScoreSourceTypes == {Absent, Str("repo_file"), Str("site_data")}

ScoreTags == {Absent, Null, List(<<>>), List(<<"Catalog", "support_unverified">>)}

ScoreContents == {Absent, Str("Control: ros2 low level control, low-level."), Str("--")}

ScoreTitles == {Str(""), Str("low_level.cpp")}

ScoreRecords ==
    {[id |-> Str("r"), title |-> t, source_type |-> st, path |-> p, url |-> Null,
      tags |-> tg, content |-> c] :
        t \in ScoreTitles, st \in ScoreSourceTypes, p \in ScorePaths,
        tg \in ScoreTags, c \in ScoreContents}

\* args.benchmark and the directory the evaluation runs in
BenchmarkPath == "benchmarks/retrieval_benchmark.yaml"

WorkDir == "/work/unitree-g1-doc"

NoVerdict ==
    [passed |-> FALSE, reason |-> "", matched_expected |-> 0, expected_total |-> 0,
     forbidden_hits |-> 0]

\* before any call of tokenize, filter_leaky_records or evaluate_case_matches
NoCalls ==
    /\ token_text = <<>>
    /\ token_list = <<>>
    /\ benchmark = BenchmarkPath
    /\ eval_records = <<>>
    /\ forbidden = <<>>
    /\ require_all_expected = FALSE
    /\ max_forbidden_hits = 0
    /\ verdict = NoVerdict

----------------------------------------------------------------------------
(* The query side: rank_records over a loaded collection.                  *)

Init ==
    /\ index \in Indexes
    /\ query = ""
    /\ top_k = 0
    /\ source_filters = {}
    /\ expected = <<>>
    /\ q_tokens = <<>>
    /\ q_intents = {}
    /\ rec = NoRecord
    /\ ranked = <<>>
    /\ deduped = <<>>
    /\ score = ZeroScore
    /\ earlier = <<>>
    /\ reported = <<>>
    /\ NoCalls
    /\ pc = "loaded"

RankRecords(q, k, filters) ==
    /\ pc = "loaded"
    /\ query' = q
    /\ top_k' = k
    /\ source_filters' = filters
    /\ q_tokens' = normalize_query_tokens(q)
    /\ q_intents' = classify_query_intent(normalize_query_tokens(q))
    /\ ranked' = rank_records(index, q, k, filters)
    /\ pc' = "ranked"
    /\ UNCHANGED call_vars
    /\ UNCHANGED <<index, expected, rec, deduped, score, earlier, reported>>

Next ==
    /\ pc = "loaded"
    /\ \E q \in Queries, k \in TopKs, filters \in SourceFilters : RankRecords(q, k, filters)

Spec == Init /\ [][Next]_vars

----------------------------------------------------------------------------
(* rank_records over a collection of two records: a chunk of the ROS 2     *)
(* low-level example and a chunk of the README.                            *)

LowLevelPath == "data/repos/unitree_ros2/example/low_level.cpp"

LowLevelRecords ==
    {make_record("repo:unitree_ros2:example/low_level.cpp:chunk-0000", "low_level.cpp",
                 "repo_file", text, Str(LowLevelPath),
                 Str("https://github.com/unitreerobotics/unitree_ros2"), tags) :
        text \in {"int main() { return 0; }", "ros2 low level control example"},
        tags \in {<<"unitree_ros2">>, <<"ros2", "unitree_ros2">>}}

ReadmeRecords ==
    {make_record("project:README.md:chunk-0000", "README.md", "project_doc", text,
                 Str("README.md"), Null, <<>>) :
        text \in {"control", "Motion control guide", "Low level API: low level control"}}

InitScenario ==
    /\ index \in {<<a, b>> : a \in LowLevelRecords, b \in ReadmeRecords}
                 \cup {<<b, a>> : a \in LowLevelRecords, b \in ReadmeRecords}
    /\ query = ""
    /\ top_k = 0
    /\ source_filters = {}
    /\ expected = <<>>
    /\ q_tokens = <<>>
    /\ q_intents = {}
    /\ rec = NoRecord
    /\ ranked = <<>>
    /\ deduped = <<>>
    /\ score = ZeroScore
    /\ earlier = <<>>
    /\ reported = <<>>
    /\ NoCalls
    /\ pc = "loaded"

SpecScenario == InitScenario /\ [][Next]_vars

----------------------------------------------------------------------------
(* rank_records called several times on one loaded collection.             *)

RepeatIndexes == {<<>>, <<RA, RB, RC>>, <<RC, RB, RE>>, <<RD, RE, RA>>}

RepeatQueries == {"ros2 low level control", "Control site"}

RepeatTopKs == {1, MaxRecords}

InitRepeat ==
    /\ index \in RepeatIndexes
    /\ query = ""
    /\ top_k = 0
    /\ source_filters = {}
    /\ expected = <<>>
    /\ q_tokens = <<>>
    /\ q_intents = {}
    /\ rec = NoRecord
    /\ ranked = <<>>
    /\ deduped = <<>>
    /\ score = ZeroScore
    /\ earlier = <<>>
    /\ reported = <<>>
    /\ NoCalls
    /\ pc = "loaded"

\* the last call of rank_records, as an entry of `earlier`
LastRankCall ==
    [query |-> query, top_k |-> top_k, source_filters |-> source_filters,
     ranked |-> ranked]

\* one more call on the same collection
RankAgain(q, k, filters) ==
    /\ pc = "ranked"
    /\ Len(earlier) + 1 < MaxCalls
    /\ earlier' = Append(earlier, LastRankCall)
    /\ query' = q
    /\ top_k' = k
    /\ source_filters' = filters
    /\ q_tokens' = normalize_query_tokens(q)
    /\ q_intents' = classify_query_intent(normalize_query_tokens(q))
    /\ ranked' = rank_records(index, q, k, filters)
    /\ UNCHANGED call_vars
    /\ UNCHANGED <<index, expected, rec, deduped, score, reported, pc>>

NextRepeat ==
    \/ /\ pc = "loaded"
       /\ \E q \in RepeatQueries, k \in RepeatTopKs, filters \in SourceFilters :
             RankRecords(q, k, filters)
    \/ /\ pc = "ranked"
       /\ \E q \in RepeatQueries, k \in RepeatTopKs, filters \in SourceFilters :
             RankAgain(q, k, filters)

SpecRepeat == InitRepeat /\ [][NextRepeat]_vars

----------------------------------------------------------------------------
(* score_record called directly.                                           *)

InitScore ==
    /\ index = <<>>
    /\ query = ""
    /\ top_k = 0
    /\ source_filters = {}
    /\ expected = <<>>
    /\ q_tokens = <<>>
    /\ q_intents = {}
    /\ rec = NoRecord
    /\ ranked = <<>>
    /\ deduped = <<>>
    /\ score = ZeroScore
    /\ earlier = <<>>
    /\ reported = <<>>
    /\ NoCalls
    /\ pc = "start"

\* one call; when it raises nothing is returned
ScoreRecord(tokens, intents, record) ==
    /\ pc = "start"
    /\ q_tokens' = tokens
    /\ q_intents' = intents
    /\ rec' = record
    /\ IF Raises(tokens, record)
       THEN score' = score /\ pc' = "raised"
       ELSE score' = score_record(tokens, intents, record) /\ pc' = "scored"
    /\ UNCHANGED call_vars
    /\ UNCHANGED <<index, query, top_k, source_filters, expected, ranked, deduped,
                   earlier, reported>>

NextScore ==
    /\ pc = "start"
    /\ \E tokens \in ScoreTokens, intents \in IntentSets, record \in ScoreRecords :
          ScoreRecord(tokens, intents, record)

SpecScore == InitScore /\ [][NextScore]_vars

----------------------------------------------------------------------------
(* rank_records called with a set for source_filters (in the calls above   *)
(* the empty set stands for the default, None).                            *)

AllowSets ==
    {{}, {"repo_file"}, {"repo_file", "project_doc"}, {"support_doc", "site_data"},
     {"curated_doc"}}

RankFiltered(q, k, filters) ==
    /\ pc = "loaded"
    /\ query' = q
    /\ top_k' = k
    /\ source_filters' = filters
    /\ q_tokens' = normalize_query_tokens(q)
    /\ q_intents' = classify_query_intent(normalize_query_tokens(q))
    /\ ranked' = rank_records(index, q, k, filters)
    /\ pc' = "filtered"
    /\ UNCHANGED call_vars
    /\ UNCHANGED <<index, expected, rec, deduped, score, earlier, reported>>

NextFilter ==
    /\ pc = "loaded"
    /\ \E q \in RepeatQueries, k \in TopKs, filters \in AllowSets : RankFiltered(q, k, filters)

SpecFilter == InitRepeat /\ [][NextFilter]_vars

----------------------------------------------------------------------------
(* The interactive query tool: query_index.py main on a loaded index.      *)

QueryIndex(question, k, filters) ==
    /\ pc = "loaded"
    /\ query' = question
    /\ top_k' = k
    /\ source_filters' = filters
    /\ q_tokens' = query_index_tokenize(question)
    /\ reported' = query_index_ranked(index, question, k, filters)
    /\ pc' = "queried"
    /\ UNCHANGED call_vars
    /\ UNCHANGED <<index, expected, q_intents, rec, ranked, deduped, score, earlier>>

NextTool ==
    /\ pc = "loaded"
    /\ \E question \in Queries, k \in TopKs, filters \in SourceFilters :
          QueryIndex(question, k, filters)

SpecTool == InitRepeat /\ [][NextTool]_vars

----------------------------------------------------------------------------
(* The query side of rank_records (lines 391-392): the query is normalized *)
(* and its intents are classified.                                         *)

QueryWords ==
    {"The", "a", "x", "G1", "Agents", "sync?", "eval", "site", "Verify!",
     "example", "manifest", "sim2real"}

WordQueries == {Join(ws, " ") : ws \in SeqsUpTo(QueryWords, MaxWords)}

NormalizeQuery(q) ==
    /\ pc = "start"
    /\ query' = q
    /\ q_tokens' = normalize_query_tokens(q)
    /\ pc' = "normalized"
    /\ UNCHANGED call_vars
    /\ UNCHANGED <<index, top_k, source_filters, expected, q_intents, rec, ranked,
                   deduped, score, earlier, reported>>

ClassifyIntent ==
    /\ pc = "normalized"
    /\ q_intents' = classify_query_intent(q_tokens)
    /\ pc' = "classified"
    /\ UNCHANGED call_vars
    /\ UNCHANGED <<index, query, top_k, source_filters, expected, q_tokens, rec, ranked,
                   deduped, score, earlier, reported>>

NextQuery ==
    \/ /\ pc = "start"
       /\ \E q \in WordQueries : NormalizeQuery(q)
    \/ ClassifyIntent

SpecQuery == InitScore /\ [][NextQuery]_vars

----------------------------------------------------------------------------
(* score_record called twice: the second call scores another record        *)
(* against the same query, or the same record against another query.       *)

CompareTokens ==
    {<<>>, <<"none">>, <<"control", "guide">>, <<"support_unverified", "control">>,
     <<"arm", "leg", "hand", "foot">>,
     <<"control", "arm", "leg", "hand", "foot">>,
     <<"control", "arm", "leg", "hand", "foot", "head">>}

CompareIntents == {{}, {"codex"}}

ComparePaths ==
    {Null, Str("README.md"), Str("docs/none.md"), Str("docs/Control.md"),
     Str("AGENTS.md"), Str("deps/control/x.md")}

CompareTags ==
    {List(<<>>), List(<<"support_unverified">>), List(<<"unverified">>)}

CompareSourceTypes == {Str("support_doc"), Str("repo_file")}

CompareContents == {Str("Control"), Str("The arm guide.")}

CompareRecords ==
    {[id |-> Str("r"), title |-> Str(""), source_type |-> st, path |-> p, url |-> Null,
      tags |-> tg, content |-> c] :
        st \in CompareSourceTypes, p \in ComparePaths, tg \in CompareTags,
        c \in CompareContents}

\* the number of keys in which two records differ
Differences(a, b) == Cardinality({k \in DOMAIN a : a[k] # b[k]})

\* the last call, as an entry of `earlier`
LastCall ==
    [query_tokens |-> q_tokens, query_intents |-> q_intents, record |-> rec,
     score |-> score]

ScoreFirst(tokens, intents, record) ==
    /\ pc = "start"
    /\ q_tokens' = tokens
    /\ q_intents' = intents
    /\ rec' = record
    /\ score' = score_record(tokens, intents, record)
    /\ pc' = "scored"
    /\ UNCHANGED call_vars
    /\ UNCHANGED <<index, query, top_k, source_filters, expected, ranked, deduped,
                   earlier, reported>>

\* a record that differs from the last one in one key, same query
ScoreOtherRecord(record) ==
    /\ pc = "scored"
    /\ Differences(record, rec) = 1
    /\ earlier' = Append(earlier, LastCall)
    /\ rec' = record
    /\ score' = score_record(q_tokens, q_intents, record)
    /\ pc' = "rescored"
    /\ UNCHANGED call_vars
    /\ UNCHANGED <<index, query, top_k, source_filters, expected, q_tokens, q_intents,
                   ranked, deduped, reported>>

\* the same record, another query
ScoreOtherQuery(tokens, intents) ==
    /\ pc = "scored"
    /\ tokens # q_tokens
    /\ earlier' = Append(earlier, LastCall)
    /\ q_tokens' = tokens
    /\ q_intents' = intents
    /\ score' = score_record(tokens, intents, rec)
    /\ pc' = "rescored"
    /\ UNCHANGED call_vars
    /\ UNCHANGED <<index, query, top_k, source_filters, expected, rec, ranked, deduped,
                   reported>>

NextCompare ==
    \/ /\ pc = "start"
       /\ \E tokens \in CompareTokens, intents \in CompareIntents,
              record \in CompareRecords :
             ScoreFirst(tokens, intents, record)
    \/ /\ pc = "scored"
       /\ \E record \in CompareRecords : ScoreOtherRecord(record)
    \/ /\ pc = "scored"
       /\ \E tokens \in CompareTokens, intents \in CompareIntents :
             ScoreOtherQuery(tokens, intents)

SpecCompare == InitScore /\ [][NextCompare]_vars

----------------------------------------------------------------------------
(* score_record called on two records that hold one query token a given    *)
(* number of times in each field.                                          *)

RECURSIVE Copies(_, _)
\* n times the item
Copies(item, n) == IF n = 0 THEN <<>> ELSE <<item>> \o Copies(item, n - 1)

HitsTokens == {<<"control">>, <<"control", "arm">>, <<"control", "control">>}

\* a record with the word `control` c times in the content, t times in the
\* title, g times in the tags and p times in the path
HitsRecord(c, t, g, p) ==
    [id          |-> Str("r"),
     title       |-> Str(Join(Copies("Control", t), " ")),
     source_type |-> Str("repo_file"),
     path        |-> Str(IF p = 0 THEN "notes.md"
                         ELSE "x/" \o Join(Copies("control", p), "/") \o ".md"),
     url         |-> Null,
     tags        |-> List(Copies("control", g)),
     content     |-> Str(IF c = 0 THEN "notes" ELSE Join(Copies("control", c), " "))]

HitsRecords ==
    {HitsRecord(c, t, g, p) : c \in {0, 1, 6}, t \in {0, 1, 4}, g \in {0, 1, 3},
                              p \in {0, 1, 2, 4}}

\* another record, which differs from the last one in one or two keys
ScoreSecond(record) ==
    /\ pc = "scored"
    /\ Differences(record, rec) \in {1, 2}
    /\ earlier' = Append(earlier, LastCall)
    /\ rec' = record
    /\ score' = score_record(q_tokens, q_intents, record)
    /\ pc' = "rescored"
    /\ UNCHANGED call_vars
    /\ UNCHANGED <<index, query, top_k, source_filters, expected, q_tokens, q_intents,
                   ranked, deduped, reported>>

NextHits ==
    \/ /\ pc = "start"
       /\ \E tokens \in HitsTokens, record \in HitsRecords : ScoreFirst(tokens, {}, record)
    \/ /\ pc = "scored"
       /\ \E record \in HitsRecords : ScoreSecond(record)

SpecHits == InitScore /\ [][NextHits]_vars

----------------------------------------------------------------------------
(* score_record called with queries of one to four tokens on records whose *)
(* content and path hold the first tokens as a phrase, or do not.          *)

PhraseTokens ==
    {<<"low">>, <<"low", "level">>, <<"level", "low">>, <<"low", "level", "control">>,
     <<"low", "level", "control", "ros2">>, <<"ros2", "low", "level", "control">>,
     <<"arm">>}

PhraseContents ==
    {Str("ROS2 Low Level Control example"), Str("low-level control of ros2"),
     Str("Low level."), Str("alarm")}

PhrasePaths ==
    {Str("docs/Low Level Control.md"), Str("docs/low level/ros2.md"),
     Str("data/low_level.cpp")}

PhraseRecords ==
    {[id |-> Str("r"), title |-> t, source_type |-> Str("curated_doc"), path |-> p,
      url |-> Null, tags |-> List(<<>>), content |-> c] :
        t \in {Str(""), Str("Arm")}, p \in PhrasePaths, c \in PhraseContents}

NextPhrase ==
    /\ pc = "start"
    /\ \E tokens \in PhraseTokens, record \in PhraseRecords : ScoreFirst(tokens, {}, record)

SpecPhrase == InitScore /\ [][NextPhrase]_vars

----------------------------------------------------------------------------
(* score_record called on records whose title or path is, or is not, on    *)
(* the noise list.                                                         *)

NoiseTitles ==
    {Str("SDK"), Str("LICENSE"), Str("License.txt"), Str("COPYING"), Str("license.md"),
     Str("SDK license")}

NoisePaths ==
    {Str("docs/sdk.md"), Str("vendor/sdk.md"), Str("src/vendor"), Str("src/Vendor/sdk.md"),
     Str("src/myvendor/sdk.md"), Str("src/vendored/sdk.md"), Str("vendor"),
     Str("/extern/"), Str("src/external.md"), Str("external/sdk.md"),
     Str("docs/sdk/LICENSE"), Str("docs/sdk/LICENSE.txt"), Str("LICENSE"),
     Str("docs/COPYING"), Str("docs/license.md"), Str(".github/sdk.yml"),
     Str("src/.github"), Str("github/sdk.yml"), Str("src/glfw/sdk.c"),
     Str("third-party/sdk"), Str("src/thirdparty/sdk"), Str("src/deps/sdk"),
     Str("wayland-sdk/sdk.c"), Str("src/wayland/sdk.c"), Null}

NoiseRecords ==
    {[id |-> Str("r"), title |-> t, source_type |-> Str("repo_file"), path |-> p,
      url |-> Null, tags |-> List(<<>>), content |-> Str("sdk")] :
        t \in NoiseTitles, p \in NoisePaths}

NextNoise ==
    /\ pc = "start"
    /\ \E record \in NoiseRecords : ScoreFirst(<<"sdk">>, {}, record)

SpecNoise == InitScore /\ [][NextNoise]_vars

----------------------------------------------------------------------------
(* score_record called twice on one record with the same tokens, the       *)
(* second time with one more intent.                                       *)

SiteTokens == {<<"sdk">>, <<"site", "sdk">>, <<"payload">>}

SiteIntentSets == {{}, {"codex"}, {"site"}, {"benchmark", "codex"}}

SiteSourceTypes ==
    {Str("repo_file"), Str("site_data"), Str("site_doc"), Str("benchmark_spec"), Null}

SitePaths ==
    {Str("site/index.html"), Str("Site/data/benchmark_examples.json"),
     Str("docs/site/index.md"), Str("scripts/build_site.py"), Str("site"), Null}

SiteRecords ==
    {[id |-> Str("r"), title |-> Str(""), source_type |-> st, path |-> p, url |-> Null,
      tags |-> List(<<>>), content |-> c] :
        st \in SiteSourceTypes, p \in SitePaths, c \in {Str("SDK payload"), Str("arm")}}

\* the same record and tokens, the intent set with one more intent
ScoreWithIntent(intent) ==
    /\ pc = "scored"
    /\ earlier' = Append(earlier, LastCall)
    /\ q_intents' = q_intents \cup {intent}
    /\ score' = score_record(q_tokens, q_intents \cup {intent}, rec)
    /\ pc' = "rescored"
    /\ UNCHANGED call_vars
    /\ UNCHANGED <<index, query, top_k, source_filters, expected, q_tokens, rec,
                   ranked, deduped, reported>>

NextSite ==
    \/ /\ pc = "start"
       /\ \E tokens \in SiteTokens, intents \in SiteIntentSets, record \in SiteRecords :
             ScoreFirst(tokens, intents, record)
    \/ /\ pc = "scored"
       /\ \E intent \in {"site", "codex", "benchmark"} : ScoreWithIntent(intent)

SpecSite == InitScore /\ [][NextSite]_vars

----------------------------------------------------------------------------
(* evaluate_case_matches called on a list of results with the patterns and *)
(* limits of one benchmark case.                                           *)

JudgeRecords ==
    {[id |-> Str("a"), title |-> Str("G1 guide"), source_type |-> Str("curated_doc"),
      path |-> Str("docs/G1_Guide.md"), url |-> Str("https://unitree.com/guide"),
      tags |-> List(<<>>), content |-> Str("g1 sdk")],
     [id |-> Str("b"), title |-> Str("G1 SDK"), source_type |-> Str("support_doc"),
      path |-> Null, url |-> Str("https://support.unitree.com/g1"),
      tags |-> List(<<>>), content |-> Str("g1 sdk")],
     [id |-> Str("c"), title |-> Str("build_site.py"), source_type |-> Str("project_script"),
      path |-> Str("scripts/build_site.py"), url |-> Str(""),
      tags |-> List(<<>>), content |-> Str("g1 sdk")]}

JudgeResults ==
    {[i \in DOMAIN recs |-> Match(MakeScore(158, 1, <<>>), recs[i])] :
        recs \in SeqsUpTo(JudgeRecords, 2)}

JudgePatterns == {"docs/", "DOCS/G1", "Unitree.com", "none", "scripts/", "md\nhttps"}

JudgeExpected ==
    {<<>>} \cup {<<p>> : p \in JudgePatterns}
    \cup {<<p, q>> : p \in JudgePatterns, q \in JudgePatterns}

JudgeForbidden == {<<>>, <<"scripts/">>, <<"scripts/", "docs/">>, <<"Docs/", "Docs/">>}

\* max_forbidden_hits as the case gives it, or the defaults of line 198
JudgeLimits == {0, 1, 999999}

JudgeCase(results, expected_patterns, forbidden_patterns, require_all, max_hits) ==
    /\ pc = "start"
    /\ deduped' = results
    /\ expected' = expected_patterns
    /\ forbidden' = forbidden_patterns
    /\ require_all_expected' = require_all
    /\ max_forbidden_hits' = max_hits
    /\ verdict' = evaluate_case_matches(results, expected_patterns, forbidden_patterns,
                                        require_all, max_hits)
    /\ pc' = "judged"
    /\ UNCHANGED <<token_text, token_list, benchmark, eval_records>>
    /\ UNCHANGED <<index, query, top_k, source_filters, q_tokens, q_intents, rec, ranked,
                   score, earlier, reported>>

NextJudge ==
    /\ pc = "start"
    /\ \E results \in JudgeResults, expected_patterns \in JudgeExpected,
          forbidden_patterns \in JudgeForbidden, require_all \in BOOLEAN,
          max_hits \in JudgeLimits :
          JudgeCase(results, expected_patterns, forbidden_patterns, require_all, max_hits)

SpecJudge == InitScore /\ [][NextJudge]_vars

----------------------------------------------------------------------------
(* dedupe_matches called on a list of matches with any integer top_k.      *)

DedupeRecord(id, path, url) ==
    [id |-> id, title |-> Str("G1"), source_type |-> Str("curated_doc"), path |-> path,
     url |-> url, tags |-> List(<<>>), content |-> Str("g1 sdk")]

DedupeRecords ==
    {DedupeRecord(Str("a"), Str("docs/a.md"), Absent),
     DedupeRecord(Str("a2"), Str(" docs/a.md "), Str("https://u/a")),
     DedupeRecord(Str("b"), Absent, Str("https://u/b")),
     DedupeRecord(Absent, Absent, Absent),
     DedupeRecord(Absent, Str("  "), Str("")),
     DedupeRecord(Null, Null, Null)}

RECURSIVE ListsUpTo(_, _)
\* the sequences of at most n elements of S
ListsUpTo(S, n) ==
    IF n = 0 THEN {<<>>}
    ELSE ListsUpTo(S, n - 1)
         \cup {Append(xs, x) : xs \in {ys \in ListsUpTo(S, n - 1) : Len(ys) = n - 1}, x \in S}

DedupeInputs ==
    {[i \in DOMAIN recs |-> Match(MakeScore(158, 1, <<>>), recs[i])] :
        recs \in ListsUpTo(DedupeRecords, MaxRecords)}

DedupeCall(matches, k) ==
    /\ pc = "start"
    /\ ranked' = matches
    /\ top_k' = k
    /\ deduped' = dedupe_matches(matches, k)
    /\ pc' = "deduped"
    /\ UNCHANGED call_vars
    /\ UNCHANGED <<index, query, source_filters, expected, q_tokens, q_intents, rec,
                   score, earlier, reported>>

NextDedupe ==
    /\ pc = "start"
    /\ \E matches \in DedupeInputs, k \in (0 - 1)..MaxEvalTopK : DedupeCall(matches, k)

SpecDedupe == InitScore /\ [][NextDedupe]_vars

----------------------------------------------------------------------------
(* The evaluation side: the index is built source by source               *)
(* (build_knowledge_index.py), loaded, and one benchmark case is run       *)
(* (eval_retrieval.py main, lines 192-202).                                *)

SrcGuide ==
    [rec_prefix |-> "doc:g1_guide.md", title |-> "g1_guide.md",
     source_type |-> "curated_doc", path |-> Str("docs/g1_guide.md"), url |-> Null,
     tags |-> <<"doc", "curated">>, text |-> "G1 SDK arm control guide"]

SrcBench ==
    [rec_prefix |-> "project:benchmarks/retrieval_benchmark.yaml",
     title |-> "retrieval_benchmark.yaml", source_type |-> "benchmark_spec",
     path |-> Str("benchmarks/retrieval_benchmark.yaml"), url |-> Null,
     tags |-> <<"benchmark">>, text |-> "query: g1 sdk question"]

\* make_record called without a path: the payload holds "path": null
SrcPageA ==
    [rec_prefix |-> "support:g1", title |-> "G1 SDK", source_type |-> "support_doc",
     path |-> Null, url |-> Str("https://support.unitree.com/g1"),
     tags |-> <<"support", "verified">>, text |-> "g1 sdk overview"]

SrcPageB ==
    [rec_prefix |-> "support:sdk", title |-> "SDK", source_type |-> "support_doc",
     path |-> Null, url |-> Str("https://support.unitree.com/sdk"),
     tags |-> <<"support", "verified">>, text |-> "sdk overview"]

\* the raw copy of page A, ingested with an empty path
SrcPageC ==
    [rec_prefix |-> "support:g1:raw", title |-> "G1 SDK", source_type |-> "support_doc",
     path |-> Str(""), url |-> Str("https://support.unitree.com/g1"),
     tags |-> <<"support">>, text |-> "g1 sdk"]

Sources == {SrcGuide, SrcBench, SrcPageA, SrcPageB, SrcPageC}

ChunkCounts == {1, 2} \cup {OverFetch * k : k \in 1..MaxEvalTopK}

EvalQueries == {" g1 sdk control ", "benchmark question"}

EvalTopKs == 1..MaxEvalTopK

ExpectedPatterns == {<<>>, <<"Benchmarks/">>}

Ingested(src) ==
    \E i \in DOMAIN index : StartsWith(GetStr(index[i], "id"), src.rec_prefix \o ":chunk-")

InitEval ==
    /\ index = <<>>
    /\ query = ""
    /\ top_k = 0
    /\ source_filters = {}
    /\ expected = <<>>
    /\ q_tokens = <<>>
    /\ q_intents = {}
    /\ rec = NoRecord
    /\ ranked = <<>>
    /\ deduped = <<>>
    /\ score = ZeroScore
    /\ earlier = <<>>
    /\ reported = <<>>
    /\ NoCalls
    /\ pc = "build"

\* one source is chunked and its records appended
AddRecords(src, n) ==
    /\ pc = "build"
    /\ ~Ingested(src)
    /\ Cardinality({s \in Sources : Ingested(s)}) < MaxFiles
    /\ index' = index \o ChunkRecords(src, [i \in 1..n |-> src.text])
    /\ UNCHANGED call_vars
    /\ UNCHANGED <<query, top_k, source_filters, expected, q_tokens, q_intents, rec,
                   ranked, deduped, score, earlier, reported, pc>>

\* the index is written, and read back by load_index
LoadIndex ==
    /\ pc = "build"
    /\ pc' = "loaded"
    /\ UNCHANGED call_vars
    /\ UNCHANGED <<index, query, top_k, source_filters, expected, q_tokens, q_intents,
                   rec, ranked, deduped, score, earlier, reported>>

\* the records ranked for a case (line 200)
EvalRecords(patterns) == filter_leaky_records(index, BenchmarkPath, WorkDir, patterns)

EvalCase(case_query, k, patterns) ==
    /\ pc = "loaded"
    /\ query' = Strip(case_query)
    /\ top_k' = k
    /\ expected' = patterns
    /\ q_tokens' = normalize_query_tokens(Strip(case_query))
    /\ q_intents' = classify_query_intent(normalize_query_tokens(Strip(case_query)))
    /\ ranked' = rank_records(EvalRecords(patterns), Strip(case_query), k * OverFetch, {})
    /\ deduped' = dedupe_matches(ranked', k)
    /\ pc' = "evaluated"
    /\ UNCHANGED call_vars
    /\ UNCHANGED <<index, source_filters, rec, score, earlier, reported>>

NextEval ==
    \/ \E src \in Sources, n \in ChunkCounts : AddRecords(src, n)
    \/ LoadIndex
    \/ \E q \in EvalQueries, k \in EvalTopKs, patterns \in ExpectedPatterns :
          EvalCase(q, k, patterns)

SpecEval == InitEval /\ [][NextEval]_vars

----------------------------------------------------------------------------
(* filter_leaky_records called on a loaded collection (main, line 200).    *)

LeakPaths ==
    {Absent, Null, Str(""), Str("benchmarks/retrieval_benchmark.yaml"),
     Str("Benchmarks/Retrieval_Benchmark.YAML"),
     Str("/work/unitree-g1-doc/benchmarks/retrieval_benchmark.yaml"),
     Str("docs/g1_guide.md"), Str("docs/none.md")}

LeakRecords ==
    {[id |-> Str("r"), title |-> Str("t"), source_type |-> Str("project_doc"),
      path |-> p, url |-> Null, tags |-> List(<<>>), content |-> Str("g1 sdk")] :
        p \in LeakPaths}

LeakIndexes == SeqsUpTo(LeakRecords, MaxRecords)

LeakBenchmarks == {BenchmarkPath, "Benchmarks/retrieval_benchmark.yaml", "none"}

LeakPatterns == {<<>>, <<"Benchmarks/">>, <<"docs/", "Guide">>, <<"retrieval", "none">>}

InitLeak ==
    /\ index \in LeakIndexes
    /\ query = ""
    /\ top_k = 0
    /\ source_filters = {}
    /\ expected = <<>>
    /\ q_tokens = <<>>
    /\ q_intents = {}
    /\ rec = NoRecord
    /\ ranked = <<>>
    /\ deduped = <<>>
    /\ score = ZeroScore
    /\ earlier = <<>>
    /\ reported = <<>>
    /\ NoCalls
    /\ pc = "loaded"

FilterLeakyRecords(benchmark_path, expected_patterns) ==
    /\ pc = "loaded"
    /\ benchmark' = benchmark_path
    /\ expected' = expected_patterns
    /\ eval_records' = filter_leaky_records(index, benchmark_path, WorkDir, expected_patterns)
    /\ pc' = "prefiltered"
    /\ UNCHANGED <<index, query, top_k, source_filters, q_tokens, q_intents, rec, ranked,
                   deduped, score, earlier, reported, token_text, token_list, forbidden,
                   require_all_expected, max_forbidden_hits, verdict>>

NextLeak ==
    /\ pc = "loaded"
    /\ \E benchmark_path \in LeakBenchmarks, expected_patterns \in LeakPatterns :
          FilterLeakyRecords(benchmark_path, expected_patterns)

SpecLeak == InitLeak /\ [][NextLeak]_vars

----------------------------------------------------------------------------
(* tokenize called directly on a text.                                     *)

\* U+0130, U+212A and U+00E9 (e with acute) are the characters beyond ASCII
TextPieces ==
    {Points("low_level"), Points("unitree_ros2"), Points("ROS2 low_level;"), Points("ros2"),
     Points("stanbul"), Points(" "), Points("-"), Points("?!"),
     <<304>>, <<8490>>, <<233>>}

RECURSIVE Flatten(_)
Flatten(pieces) == IF pieces = <<>> THEN <<>> ELSE Head(pieces) \o Flatten(Tail(pieces))

Texts == {Flatten(pieces) : pieces \in SeqsUpTo(TextPieces, MaxPieces)}

Tokenize(points) ==
    /\ pc = "start"
    /\ token_text' = points
    /\ token_list' = tokenize_text(points)
    /\ pc' = "tokenized"
    /\ UNCHANGED <<index, query, top_k, source_filters, expected, q_tokens, q_intents, rec,
                   ranked, deduped, score, earlier, reported, benchmark, eval_records,
                   forbidden, require_all_expected, max_forbidden_hits, verdict>>

NextTokenize ==
    /\ pc = "start"
    /\ \E points \in Texts : Tokenize(points)

SpecTokenize == InitScore /\ [][NextTokenize]_vars

----------------------------------------------------------------------------
(* The notions the properties below are stated in.                         *)

\* position of a record in the collection (ids are unique)
PosIn(records, record) == CHOOSE p \in DOMAIN records : records[p] = record

\* the records of the collection that compete: not excluded, score > 0
PositiveIn(records) ==
    {p \in DOMAIN records :
        /\ ~Excluded(records[p], source_filters)
        /\ ScorePositive(score_record(q_tokens, q_intents, records[p]))}

\* a JSON field holds a value: the key is there, not null, and not blank
Present(v) == v.kind = "str" /\ Strip(v.text) # ""

\* identity key of a record: its path if present, else its url, else its id
IdentityKey(record) ==
    IF Present(record.path) THEN Strip(record.path.text)
    ELSE IF Present(record.url) THEN Strip(record.url.text)
    ELSE IF Present(record.id) THEN Strip(record.id.text)
    ELSE ""

\* the text of a field as the data model reads it: absent or null is empty
FieldText(v) == IF v.kind = "str" THEN v.text ELSE ""

\* the tokens of a record's content, title, path and tags
RecordTokens(record) ==
    Range(tokenize(FieldText(record.content)))
    \cup Range(tokenize(FieldText(record.title)))
    \cup Range(tokenize(FieldText(record.path)))
    \cup UNION {Range(tokenize(tag)) :
                  tag \in (IF record.tags.kind = "list" THEN Range(record.tags.items) ELSE {})}

\* t is s with some elements left out, order kept
RECURSIVE IsSubsequence(_, _)
IsSubsequence(t, s) ==
    IF t = <<>> THEN TRUE
    ELSE IF s = <<>> THEN FALSE
    ELSE IF Head(t) = Head(s) THEN IsSubsequence(Tail(t), Tail(s))
    ELSE IsSubsequence(t, Tail(s))

----------------------------------------------------------------------------
(* Properties of rank_records (Spec).                                      *)

\* C1: rank_records called with top_k <= 0 returns an empty sequence.
C1_NonPositiveTopKReturnsEmpty ==
    (pc = "ranked" /\ top_k <= 0) => ranked = <<>>

\* C2, as stated: for every top_k, rank_records returns exactly min(top_k, P)
\* matches, P being the number of non-excluded records with a positive score.
C2_ReturnsMinOfTopKAndPositiveCount ==
    pc = "ranked" => Len(ranked) = Min2(top_k, Cardinality(PositiveIn(index)))

\* C2, amended: for every top_k >= 0, rank_records returns exactly
\* min(top_k, P) matches.
C2_ReturnsMinForNonNegativeTopK ==
    (pc = "ranked" /\ top_k >= 0)
        => Len(ranked) = Min2(top_k, Cardinality(PositiveIn(index)))

\* a call that had to truncate, with a source filter that excluded a record
C2_Witness ==
    /\ pc = "ranked"
    /\ top_k >= 1
    /\ Cardinality(PositiveIn(index)) > top_k
    /\ Len(ranked) = top_k
    /\ \E p \in DOMAIN index : Excluded(index[p], source_filters)

\* C3: the returned matches are in descending score order, matches of equal
\* score in the order of their records in the input, and they are the first
\* matches of that order: every competing record left out comes after every
\* returned one (for top_k >= 0 they are the first top_k, see C2).
C3_SortedStableFirstK ==
    pc = "ranked" =>
        /\ \A i \in DOMAIN ranked :
              /\ \E p \in PositiveIn(index) : index[p] = ranked[i].record
              /\ ScoreEq(ranked[i].score,
                         score_record(q_tokens, q_intents, ranked[i].record))
        /\ \A i, j \in DOMAIN ranked :
              i < j =>
                 /\ ~ScoreLess(ranked[i].score, ranked[j].score)
                 /\ ScoreEq(ranked[i].score, ranked[j].score)
                       => PosIn(index, ranked[i].record) < PosIn(index, ranked[j].record)
        /\ \A p \in PositiveIn(index) :
              (\A i \in DOMAIN ranked : ranked[i].record # index[p]) =>
                 \A i \in DOMAIN ranked :
                    LET sc == score_record(q_tokens, q_intents, index[p])
                    IN  \/ ScoreLess(sc, ranked[i].score)
                        \/ /\ ScoreEq(sc, ranked[i].score)
                           /\ PosIn(index, ranked[i].record) < p

\* the sort moved a later record ahead, and the cut fell between two records
\* of equal score
C3_Witness ==
    /\ pc = "ranked"
    /\ \E i, j \in DOMAIN ranked :
          i < j /\ PosIn(index, ranked[i].record) > PosIn(index, ranked[j].record)
    /\ \E p \in PositiveIn(index), i \in DOMAIN ranked :
          /\ \A j \in DOMAIN ranked : ranked[j].record # index[p]
          /\ ScoreEq(ranked[i].score, score_record(q_tokens, q_intents, index[p]))

\* C4: every returned match has a score > 0; a record that scores 0 is never
\* returned.
C4_RankedScoresPositive ==
    pc = "ranked" =>
        \A i \in DOMAIN ranked :
            /\ ScorePositive(ranked[i].score)
            /\ ScorePositive(score_record(q_tokens, q_intents, ranked[i].record))

\* fewer matches than asked for, because a record that was not excluded
\* scored 0
C4_Witness ==
    /\ pc = "ranked"
    /\ ranked # <<>>
    /\ Len(ranked) < top_k
    /\ \E p \in DOMAIN index :
          /\ ~Excluded(index[p], source_filters)
          /\ ~ScorePositive(score_record(q_tokens, q_intents, index[p]))

\* C12: for the query "ros2 low level control", rank_records returns the
\* record with path data/repos/unitree_ros2/example/low_level.cpp before the
\* record with path README.md whose content holds "control" once.
C12_LowLevelExampleBeforeReadme ==
    (/\ pc = "ranked"
     /\ query = "ros2 low level control"
     /\ \A p \in DOMAIN index : ~Excluded(index[p], source_filters)
     /\ \E p \in DOMAIN index : GetStr(index[p], "path") = LowLevelPath)
        => \A j \in DOMAIN ranked :
              (/\ GetStr(ranked[j].record, "path") = "README.md"
               /\ Count(tokenize(Lower(GetStr(ranked[j].record, "content"))), "control") = 1)
                 => \E i \in 1..(j - 1) : GetStr(ranked[i].record, "path") = LowLevelPath

\* two lists of matches hold the same records with the same scores
SameMatches(a, b) ==
    /\ Len(a) = Len(b)
    /\ \A i \in DOMAIN a :
          a[i].record = b[i].record /\ ScoreEq(a[i].score, b[i].score)

C19_ReturnedSourceTypesAllowed ==
    pc = "filtered" =>
        /\ \A i \in DOMAIN ranked :
              GetStr(ranked[i].record, "source_type") \in source_filters
        /\ top_k >= 0 =>
              \A p \in DOMAIN index :
                 (/\ GetStr(index[p], "source_type") \in source_filters
                  /\ ScorePositive(score_record(q_tokens, q_intents, index[p])))
                    => \/ \E i \in DOMAIN ranked : ranked[i].record = index[p]
                       \/ Len(ranked) = top_k

\* C20: the records the query tool reports, and their order, are those of
\* rank_records for the same index, question, top_k and source filter.
C20_ToolReportsRankerOutput ==
    pc = "queried" =>
        LET core == rank_records(index, query, top_k, source_filters)
        IN  /\ Len(reported) = Len(core)
            /\ \A i \in DOMAIN reported : reported[i].record = core[i].record

----------------------------------------------------------------------------
(* Properties of normalize_query_tokens and classify_query_intent          *)
(* (SpecQuery).                                                            *)

LongToken(tok) == Len(tok) > 1

ContentToken(tok) == Len(tok) > 1 /\ tok \notin STOPWORDS

\* t holds exactly the tokens of raw that satisfy Wanted(_), in the order of
\* raw and as often as raw holds them
IsFilterOf(t, raw, Wanted(_)) ==
    /\ IsSubsequence(t, raw)
    /\ \A i \in DOMAIN t : Wanted(t[i])
    /\ \A i \in DOMAIN raw : Wanted(raw[i]) => Count(t, raw[i]) = Count(raw, raw[i])

\* C17: normalize_query_tokens returns, in order and with duplicates, the
\* tokens longer than 1 that are no stopwords if there is one, else the
\* tokens longer than 1 if there is one, else the raw tokens; so the result
\* is empty only if the query has no token, and holds raw tokens only.
C17_NormalizeFallsBack ==
    pc \in {"normalized", "classified"} =>
        LET raw == tokenize(query)
        IN  /\ IF \E i \in DOMAIN raw : ContentToken(raw[i])
               THEN IsFilterOf(q_tokens, raw, ContentToken)
               ELSE IF \E i \in DOMAIN raw : LongToken(raw[i])
               THEN IsFilterOf(q_tokens, raw, LongToken)
               ELSE q_tokens = raw
            /\ raw # <<>> => q_tokens # <<>>
            /\ Range(q_tokens) \subseteq Range(raw)

\* a query of stopwords: the result is the stopwords longer than 1, twice
\* the same one, and a one-letter token was dropped
C17_Witness ==
    /\ pc = "normalized"
    /\ q_tokens # <<>>
    /\ \A i \in DOMAIN q_tokens : q_tokens[i] \in STOPWORDS
    /\ Len(q_tokens) = 2
    /\ q_tokens[1] = q_tokens[2]
    /\ Len(tokenize(query)) = 3

\* the keyword set of an intent label
HintsOf(label) ==
    CASE label = "codex"        -> CODEX_HINTS
      [] label = "pipeline"     -> PIPELINE_HINTS
      [] label = "benchmark"    -> BENCHMARK_HINTS
      [] label = "site"         -> SITE_HINTS
      [] label = "verification" -> VERIFICATION_HINTS
      [] label = "code_example" -> CODE_EXAMPLE_HINTS
      [] label = "manifest"     -> MANIFEST_HINTS
      [] label = "sim2real"     -> SIM2REAL_HINTS

\* C18: classify_query_intent returns exactly the labels whose keyword set
\* shares a token with the query tokens, each label on its own; no token,
\* no label.
C18_IntentIffKeywordShared ==
    pc = "classified" =>
        /\ q_intents \subseteq Intents
        /\ \A label \in Intents :
              label \in q_intents <=> Range(q_tokens) \cap HintsOf(label) # {}
        /\ q_tokens = <<>> => q_intents = {}

\* three labels at once, two of them from one token, a token twice
C18_Witness ==
    /\ pc = "classified"
    /\ q_intents = {"site", "code_example", "codex"}
    /\ Len(q_tokens) = 3
    /\ Cardinality(Range(q_tokens)) = 2

----------------------------------------------------------------------------
(* Properties of score_record (SpecScore).                                 *)

\* C5: a record none of whose content, title, path and tags tokens is a
\* query token scores exactly 0.
C5_NoSharedTokenScoresZero ==
    (pc = "scored" /\ Range(q_tokens) \cap RecordTokens(rec) = {})
        => ScoreSign(score) = 0

\* the record with every null key removed
WithoutNulls(record) ==
    [k \in DOMAIN record |-> IF record[k].kind = "null" THEN Absent ELSE record[k]]

\* C15: score_record never raises, and a field that is null counts as one
\* that is absent: as an empty string or list, which matches no query token.
C15_NullFieldReadAsAbsent ==
    /\ pc # "raised"
    /\ pc = "scored" =>
          ScoreEq(score, score_record(q_tokens, q_intents, WithoutNulls(rec)))

\* the record has no content, no title and no path
NoContentTitlePath(record) ==
    FieldText(record.content) = "" /\ FieldText(record.title) = ""
    /\ FieldText(record.path) = ""

\* C25: score_record returns 0 when the query has no token, when the
\* record's content, title and path are all empty (whatever its tags), and
\* when no token of its content, title, path and tags is a query token; in
\* every other case it returns a score > 0.
C25_ZeroExactlyInRejectCases ==
    pc = "scored" =>
        IF \/ q_tokens = <<>>
           \/ NoContentTitlePath(rec)
           \/ Range(q_tokens) \cap RecordTokens(rec) = {}
        THEN ScoreSign(score) = 0
        ELSE ScorePositive(score)

\* C6: score_record returns a value >= 0 for every query, intent set and
\* record.
C6_ScoreNonNegative ==
    pc = "scored" => ScoreSign(score) >= 0

\* a positive score with a source boost, the unverified penalty and both
\* noise penalties multiplied in; and the score of an empty query
C6_Witness ==
    /\ pc = "scored"
    /\ ScorePositive(score)
    /\ "support_unverified" \in Fields(rec).record_tags
    /\ NoisePenalty(q_tokens, Fields(rec)) = <<25, 55>>
    /\ q_intents # {}

----------------------------------------------------------------------------
(* Properties of two score_record calls (SpecCompare).                     *)

\* the two calls had the same query tokens and intents
SameQuery(call) == call.query_tokens = q_tokens /\ call.query_intents = q_intents

\* a query token is a token of the record's path
PathHasQueryToken(tokens, record) ==
    Range(tokens) \cap Range(tokenize(Lower(FieldText(record.path)))) # {}

\* C11: of two records identical in content, title, tags and source_type and
\* scored against the same query, the one whose path holds a query token
\* scores strictly higher than the one whose path holds none.
C11_PathTokenScoresHigher ==
    (pc = "rescored" /\ SameQuery(earlier[1])) =>
        LET other == earlier[1]
        IN  /\ (/\ \A k \in {"content", "title", "tags", "source_type"} :
                       rec[k] = other.record[k]
                 /\ PathHasQueryToken(q_tokens, rec)
                 /\ ~PathHasQueryToken(q_tokens, other.record))
                   => ScoreLess(other.score, score)
            /\ (/\ \A k \in {"content", "title", "tags", "source_type"} :
                       rec[k] = other.record[k]
                 /\ PathHasQueryToken(q_tokens, other.record)
                 /\ ~PathHasQueryToken(q_tokens, rec))
                   => ScoreLess(score, other.score)

\* the tag build_knowledge_index.py gives the chunks of an unverified page
UnverifiedTag == "support_unverified"

\* record a is record b with the unverified tag added
AddsUnverifiedTag(a, b) ==
    /\ a.tags.kind = "list"
    /\ b.tags.kind = "list"
    /\ a.tags.items = Append(b.tags.items, UnverifiedTag)
    /\ UnverifiedTag \notin Range(b.tags.items)
    /\ \A k \in DOMAIN a \ {"tags"} : a[k] = b[k]

\* sc * pct / 100
TimesPercent(sc, pct) == [sc EXCEPT !.num = BigTimes(@, pct), !.e = @ + 1]

\* C13, as stated: of two records identical except for the unverified tag
\* and scored against the same query, the tagged one scores strictly lower.
C13_UnverifiedScoresStrictlyLower ==
    (pc = "rescored" /\ SameQuery(earlier[1])) =>
        LET other == earlier[1]
        IN  /\ AddsUnverifiedTag(rec, other.record) => ScoreLess(score, other.score)
            /\ AddsUnverifiedTag(other.record, rec) => ScoreLess(other.score, score)

\* C13, amended: when no query token is a token of the tag, the tagged
\* record scores exactly 0.35 times the other: strictly lower when the other
\* scores > 0, and 0 when the other scores 0.
C13_UnverifiedScoresAt35Percent ==
    (/\ pc = "rescored"
     /\ SameQuery(earlier[1])
     /\ Range(q_tokens) \cap Range(tokenize(Lower(UnverifiedTag))) = {}) =>
        LET other == earlier[1]
        IN  /\ AddsUnverifiedTag(rec, other.record) =>
                  /\ ScoreEq(score, TimesPercent(other.score, 35))
                  /\ ScorePositive(other.score) => ScoreLess(score, other.score)
                  /\ ~ScorePositive(other.score) => ScoreSign(score) = 0
            /\ AddsUnverifiedTag(other.record, rec) =>
                  /\ ScoreEq(other.score, TimesPercent(score, 35))
                  /\ ScorePositive(score) => ScoreLess(other.score, score)
                  /\ ~ScorePositive(score) => ScoreSign(other.score) = 0

\* the untagged record scored > 0 and the tagged one was scored after it
C13_Witness ==
    /\ pc = "rescored"
    /\ SameQuery(earlier[1])
    /\ Range(q_tokens) \cap Range(tokenize(Lower(UnverifiedTag))) = {}
    /\ AddsUnverifiedTag(rec, earlier[1].record)
    /\ ScorePositive(earlier[1].score)
    /\ ScorePositive(score)

\* the query tokens found in the record's fields as score_record reads them
Overlap(tokens, record) ==
    LET f == Fields(record)
    IN  Range(tokens) \cap (Range(tokenize(f.content)) \cup Range(tokenize(f.title))
                            \cup Range(tokenize(f.tags)) \cup Range(tokenize(f.path)))

\* the query has at least 4 distinct tokens and coverage < 0.20
BroadWeakQuery(tokens, record) ==
    /\ Cardinality(Range(tokens)) >= 4
    /\ 5 * Cardinality(Overlap(tokens, record)) < Cardinality(Range(tokens))

\* coverage >= 0.20
CoversFifth(tokens, record) ==
    tokens # <<>> /\ 5 * Cardinality(Overlap(tokens, record)) >= Cardinality(Range(tokens))

\* every term of raw_score but coverage, and every factor but the
\* low-coverage penalty, is the same for the two queries on the record
OtherFactorsEqual(tokens1, intents1, tokens2, intents2, record) ==
    LET f  == Fields(record)
        s1 == Range(tokens1)
        s2 == Range(tokens2)
    IN  /\ SumHits(s1, tokenize(f.content), 5) = SumHits(s2, tokenize(f.content), 5)
        /\ SumHits(s1, tokenize(f.title), 3) = SumHits(s2, tokenize(f.title), 3)
        /\ SumHits(s1, tokenize(f.tags), 2) = SumHits(s2, tokenize(f.tags), 2)
        /\ SumHits(s1, tokenize(f.path), 3) = SumHits(s2, tokenize(f.path), 3)
        /\ Cardinality(s1 \cap Range(tokenize(f.path))) * Cardinality(s2)
              = Cardinality(s2 \cap Range(tokenize(f.path))) * Cardinality(s1)
        /\ PhraseBonus(tokens1, f) = PhraseBonus(tokens2, f)
        /\ IntentBoost(tokens1, intents1, f) = IntentBoost(tokens2, intents2, f)

\* the score with the 0.55 factor multiplied in after the other factors
PenalizedScore(tokens, intents, record) ==
    LET f == Fields(record)
    IN  MakeScore(RawScore(tokens, f), Cardinality(Range(tokens)),
                  SourceBoost(f) \o PathBoost(f) \o IntentBoost(tokens, intents, f)
                  \o (IF _path_has_noise(f.path, f.title) THEN <<25>> ELSE <<>>)
                  \o <<55>>)

\* C14: a record scored against a query with at least 4 distinct tokens and
\* coverage < 0.20 gets the 0.55 factor, whatever the number of distinct
\* tokens (>= 4), and scores strictly lower than the same record scored
\* against a query with coverage >= 0.20, all other factors being equal.
C14_BroadWeakQueryPenalized ==
    /\ (pc \in {"scored", "rescored"} /\ BroadWeakQuery(q_tokens, rec)) =>
          IF Overlap(q_tokens, rec) = {}
          THEN ScoreSign(score) = 0
          ELSE ScoreEq(score, PenalizedScore(q_tokens, q_intents, rec))
    /\ (pc = "rescored" /\ earlier[1].record = rec) =>
          LET other == earlier[1]
          IN  /\ (/\ BroadWeakQuery(q_tokens, rec)
                   /\ CoversFifth(other.query_tokens, rec)
                   /\ OtherFactorsEqual(q_tokens, q_intents,
                                         other.query_tokens, other.query_intents, rec))
                     => ScoreLess(score, other.score)
              /\ (/\ BroadWeakQuery(other.query_tokens, rec)
                   /\ CoversFifth(q_tokens, rec)
                   /\ OtherFactorsEqual(q_tokens, q_intents,
                                         other.query_tokens, other.query_intents, rec))
                     => ScoreLess(other.score, score)

\* a record scored above 0 by a query of 5 tokens covering a fifth, then
\* scored above 0, with the penalty, by a query of 6 tokens
C14_Witness ==
    /\ pc = "rescored"
    /\ earlier[1].record = rec
    /\ BroadWeakQuery(q_tokens, rec)
    /\ ScorePositive(score)
    /\ CoversFifth(earlier[1].query_tokens, rec)
    /\ Cardinality(Range(earlier[1].query_tokens)) = 5
    /\ OtherFactorsEqual(q_tokens, q_intents,
                         earlier[1].query_tokens, earlier[1].query_intents, rec)

----------------------------------------------------------------------------
(* Properties of the deduplicated ranking (SpecEval).                      *)

\* the records the case ranks, and those of them that score > 0
CaseRecords == EvalRecords(expected)

CasePositive == {CaseRecords[p] : p \in PositiveIn(CaseRecords)}

\* C7: no two matches of the deduplicated ranking share an identity key.
C7_NoTwoMatchesShareIdentityKey ==
    pc = "evaluated" =>
        \A i, j \in DOMAIN deduped :
            i # j => IdentityKey(deduped[i].record) # IdentityKey(deduped[j].record)

\* C8: a record without a path is keyed by its url (by its id without a url
\* too): while the deduplicated ranking has room, every positive-scoring
\* record without a path has a match with its url (or id) in it.
C8_PathlessRecordKeyedByUrl ==
    (pc = "evaluated" /\ Len(deduped) < top_k /\ Len(ranked) < top_k * OverFetch) =>
        \A r \in CasePositive :
            (~Present(r.path) /\ IdentityKey(r) # "") =>
                \E i \in DOMAIN deduped :
                    IdentityKey(deduped[i].record) = IdentityKey(r)

\* C9: the deduplicated ranking holds exactly min(top_k, D) matches, D being
\* the number of distinct keys among the positive-scoring records (the keys
\* taken as dedupe_matches computes them).
C9_DedupedCountIsMinOfTopKAndKeys ==
    pc = "evaluated" =>
        Len(deduped)
            = Min2(top_k, Cardinality({DedupeKey(r) : r \in CasePositive} \ {""}))

\* C10: the match kept for an identity key is the first match with that key
\* in the sorted input, and the output is a subsequence of the input.
C10_KeepsFirstOccurrencePerKey ==
    pc = "evaluated" =>
        /\ IsSubsequence(deduped, ranked)
        /\ \A i \in DOMAIN deduped :
              \A j \in DOMAIN ranked :
                 IdentityKey(ranked[j].record) = IdentityKey(deduped[i].record)
                    => \A k \in DOMAIN ranked :
                          ranked[k] = deduped[i] => j >= k

----------------------------------------------------------------------------
(* Properties of filter_leaky_records (SpecLeak).                          *)

\* the record has a path: the key is there, not null, not empty
HasPath(record) == record.path.kind = "str" /\ record.path.text # ""

\* the record's path contains the path of the benchmark definition file,
\* as given or resolved, whatever the case of the letters
IsBenchmarkDoc(record) ==
    \/ Contains(Lower(FieldText(record.path)), Lower(benchmark))
    \/ Contains(Lower(FieldText(record.path)), Lower(Resolve(benchmark, WorkDir)))

\* the record's path matches an expected pattern of the case
MatchesExpected(record) ==
    \E i \in DOMAIN expected :
        Contains(Lower(FieldText(record.path)), Lower(expected[i]))

Leaks(record) == HasPath(record) /\ IsBenchmarkDoc(record) /\ ~MatchesExpected(record)

\* C21: filter_leaky_records removes a record if and only if its path
\* contains the path of the benchmark definition file and matches no
\* expected pattern; the other records, those without a path among them,
\* are kept in their order.
C21_LeakFilterRemovesExactlyBenchmarkDoc ==
    pc = "prefiltered" =>
        eval_records = SelectSeq(index, LAMBDA record : ~Leaks(record))

----------------------------------------------------------------------------
(* Properties of tokenize (SpecTokenize).                                  *)

\* the code points of the ASCII letters, the digits and the underscore
WordPoints ==
    Range(Points("abcdefghijklmnopqrstuvwxyzABCDEFGHIJKLMNOPQRSTUVWXYZ0123456789_"))

\* where a maximal run of letters, digits and underscores starts in a text
RunStarts(points) ==
    {i \in DOMAIN points :
        points[i] \in WordPoints /\ (i = 1 \/ points[i - 1] \notin WordPoints)}

\* where the run that starts at i ends
RunEnd(points, i) ==
    CHOOSE j \in i..Len(points) :
        /\ \A k \in i..j : points[k] \in WordPoints
        /\ j = Len(points) \/ points[j + 1] \notin WordPoints

\* the start of the n-th run
NthRunStart(points, n) ==
    CHOOSE i \in RunStarts(points) :
        Cardinality({j \in RunStarts(points) : j < i}) = n - 1

\* the maximal runs of the text, in order
RunsOf(points) ==
    [n \in 1..Cardinality(RunStarts(points)) |->
        Chars(SubSeq(points, NthRunStart(points, n),
                     RunEnd(points, NthRunStart(points, n))))]

\* the text has ASCII characters only
IsAscii(points) == \A i \in DOMAIN points : points[i] < 128

----------------------------------------------------------------------------
(* Properties of the raw score (SpecHits).                                 *)

\* the fields that are searched for hits, by falling weight of a hit
HitFields == <<"title", "path", "tags", "content">>

HitCaps == <<3, 3, 2, 5>>

\* what a call of score_record has to work with: the tokens of the four
\* fields as it reads them, the phrase bonus and the factors
Scored(query_tokens, query_intents, record) ==
    LET f == Fields(record)
    IN  [query   |-> Range(query_tokens),
         tokens  |-> [F \in Range(HitFields) |-> tokenize(f[F])],
         phrase  |-> PhraseBonus(query_tokens, f),
         factors |-> SourceBoost(f) \o PathBoost(f)
                     \o IntentBoost(query_tokens, query_intents, f)
                     \o NoisePenalty(query_tokens, f)]

\* the sum over the distinct query tokens of min(occurrences, cap): the
\* occurrences counted, the first cap ones of each token
CappedHits(call, i) ==
    Cardinality({pair \in call.query \X (1..HitCaps[i]) :
                    pair[2] <= Count(call.tokens[HitFields[i]], pair[1])})

\* the occurrences of query tokens in the field, all of them
AllOccurrences(call, F) ==
    Cardinality({k \in DOMAIN call.tokens[F] : call.tokens[F][k] \in call.query})

\* the query tokens found in some field, and those found in the path
Covered(call) ==
    call.query \cap UNION {Range(call.tokens[F]) : F \in Range(HitFields)}

PathCovered(call) == call.query \cap Range(call.tokens["path"])

\* the stated raw score, times 10 * n for n distinct query tokens
StatedRaw(call) ==
    LET n == Cardinality(call.query)
    IN  CappedHits(call, 4) * 10 * n
        + CappedHits(call, 1) * 31 * n
        + CappedHits(call, 3) * 24 * n
        + CappedHits(call, 2) * 28 * n
        + Cardinality(Covered(call)) * 70
        + Cardinality(PathCovered(call)) * 40
        + call.phrase * n

\* the call is not rejected: there is a query token, a token in the content,
\* the title or the path, and a query token in some field
PassesReject(call) ==
    /\ call.query # {}
    /\ \E F \in {"content", "title", "path"} : call.tokens[F] # <<>>
    /\ Covered(call) # {}

\* the returned score is the stated raw score times the factors
ScoreIsStatedRaw(call, sc) ==
    PassesReject(call) => ScoreEq(sc, MakeScore(StatedRaw(call), Cardinality(call.query),
                                         call.factors))

\* the records differ in no other key than the two fields
DifferOnlyIn(a, b, F, G) == \A k \in DOMAIN a \ {F, G} : a[k] = b[k]

\* the record holds one occurrence of a query token, in the field F
OneOccurrenceIn(call, F) ==
    \A G \in Range(HitFields) : AllOccurrences(call, G) = (IF G = F THEN 1 ELSE 0)

\* the call with the one occurrence in field i scored higher than the call
\* with it in field j, the raw score being multiplied by the same factors
OneOccurrenceOutweighs(a, sa, b, sb, i, j) ==
    (/\ OneOccurrenceIn(a, HitFields[i])
     /\ OneOccurrenceIn(b, HitFields[j])
     /\ a.factors = b.factors)
        => ScoreLess(sb, sa)

\* coverage, path coverage, phrase bonus and factors of the two calls are
\* equal
OtherTermsEqual(a, b) ==
    /\ Covered(a) = Covered(b)
    /\ PathCovered(a) = PathCovered(b)
    /\ a.phrase = b.phrase
    /\ a.factors = b.factors

\* occurrences beyond the cap change nothing: two calls with the same
\* capped hits in every field, and the other terms equal, score the same
SameCappedHitsSameScore(a, sa, b, sb) ==
    ((\A i \in DOMAIN HitFields : CappedHits(a, i) = CappedHits(b, i))
     /\ OtherTermsEqual(a, b))
        => ScoreEq(sa, sb)

\* C23, as stated: the score is the stated raw score times the factors, the
\* hits of a field being capped; and of two records that differ in where
\* their one occurrence of a query token is, the one with it in the title
\* outscores the one with it in the path, which outscores the one with it in
\* the tags, which outscores the one with it in the content.
C23_RawScoreAndOccurrenceOrder ==
    /\ pc \in {"scored", "rescored"} =>
          ScoreIsStatedRaw(Scored(q_tokens, q_intents, rec), score)
    /\ pc = "rescored" =>
          LET a  == Scored(q_tokens, q_intents, rec)
              b  == Scored(q_tokens, q_intents, earlier[1].record)
              sb == earlier[1].score
          IN  /\ SameCappedHitsSameScore(a, score, b, sb)
              /\ \A i, j \in DOMAIN HitFields :
                    (i < j /\ DifferOnlyIn(rec, earlier[1].record, HitFields[i], HitFields[j]))
                       => /\ OneOccurrenceOutweighs(a, score, b, sb, i, j)
                          /\ OneOccurrenceOutweighs(b, sb, a, score, i, j)

\* call a has one capped hit more than b in field i, b one more than a in
\* field j, and the other terms are equal
FurtherHit(a, b, i, j) ==
    /\ CappedHits(a, i) = CappedHits(b, i) + 1
    /\ CappedHits(b, j) = CappedHits(a, j) + 1
    /\ OtherTermsEqual(a, b)

\* the pairs of fields for which one occurrence in the first outweighs one
\* in the second whatever the other terms: not title over path (the first
\* occurrence in the path raises path_coverage too), not tags over content
\* (an occurrence in the content can earn the phrase bonus)
SureOrder == {<<1, 3>>, <<1, 4>>, <<2, 3>>, <<2, 4>>}

\* C23, amended: the score is the stated raw score times the factors, the
\* hits of a field being capped, so that occurrences beyond the cap change
\* nothing.  The weights of a hit fall from title to path to tags to
\* content: with coverage, path coverage and phrase bonus equal, a further
\* hit in a field outweighs a further hit in a field after it.  One
\* occurrence in the title or in the path outweighs one in the tags or in
\* the content.
C23_RawScoreAndHitWeightOrder ==
    /\ pc \in {"scored", "rescored"} =>
          ScoreIsStatedRaw(Scored(q_tokens, q_intents, rec), score)
    /\ pc = "rescored" =>
          LET a  == Scored(q_tokens, q_intents, rec)
              b  == Scored(q_tokens, q_intents, earlier[1].record)
              sb == earlier[1].score
          IN  /\ SameCappedHitsSameScore(a, score, b, sb)
              /\ \A i, j \in DOMAIN HitFields :
                    (i < j /\ DifferOnlyIn(rec, earlier[1].record, HitFields[i], HitFields[j]))
                       => /\ FurtherHit(a, b, i, j) => ScoreLess(sb, score)
                          /\ FurtherHit(b, a, i, j) => ScoreLess(score, sb)
                          /\ <<i, j>> \in SureOrder =>
                                /\ OneOccurrenceOutweighs(a, score, b, sb, i, j)
                                /\ OneOccurrenceOutweighs(b, sb, a, score, i, j)

\* a record with a second hit in the title scored after the same record
\* with a second hit in the path instead, the content holding the token
\* more often than the cap counts
C23_Witness ==
    /\ pc = "rescored"
    /\ DifferOnlyIn(rec, earlier[1].record, "title", "path")
    /\ FurtherHit(Scored(q_tokens, q_intents, rec),
                  Scored(q_tokens, q_intents, earlier[1].record), 1, 2)
    /\ Count(tokenize(Fields(rec).content), "control") > 5
    /\ ScorePositive(earlier[1].score)
    /\ ScoreLess(earlier[1].score, score)

----------------------------------------------------------------------------
(* Properties of the phrase bonus (SpecPhrase).                            *)

\* the first three query tokens joined by single spaces, all of them when
\* there are fewer
FirstThreePhrase(query_tokens) ==
    CASE Len(query_tokens) = 0 -> ""
      [] Len(query_tokens) = 1 -> query_tokens[1]
      [] Len(query_tokens) = 2 -> query_tokens[1] \o " " \o query_tokens[2]
      [] OTHER -> query_tokens[1] \o " " \o query_tokens[2] \o " " \o query_tokens[3]

\* the stated phrase bonus, in tenths
StatedPhraseBonus(query_tokens, record) ==
    (IF Contains(Fields(record).content, FirstThreePhrase(query_tokens)) THEN 15 ELSE 0)
    + (IF Contains(Fields(record).path, FirstThreePhrase(query_tokens)) THEN 20 ELSE 0)

\* C24: the phrase bonus of a score is 1.5 if the first three query tokens
\* (all of them when there are fewer), joined by single spaces, are a
\* substring of the lower-cased content, plus 2.0 if they are a substring of
\* the lower-cased path; the tokens after the third play no part in it.
C24_PhraseBonusOfFirstThreeTokens ==
    pc = "scored" =>
        LET call == Scored(q_tokens, q_intents, rec)
        IN  /\ PassesReject(call) =>
                  ScoreEq(score,
                          MakeScore(StatedRaw([call EXCEPT
                                                  !.phrase = StatedPhraseBonus(q_tokens, rec)]),
                                    Cardinality(call.query), call.factors))
            /\ StatedPhraseBonus(q_tokens, rec)
                  = StatedPhraseBonus(SubSeq(q_tokens, 1, Min2(3, Len(q_tokens))), rec)

\* a query of four tokens: the first three are a phrase of the content and
\* of the path, the four together are a phrase of neither
C24_Witness ==
    /\ pc = "scored"
    /\ Len(q_tokens) = 4
    /\ StatedPhraseBonus(q_tokens, rec) = 35
    /\ ~Contains(Fields(rec).content, Join(q_tokens, " "))
    /\ ~Contains(Fields(rec).path, Join(q_tokens, " "))
    /\ ScorePositive(score)

----------------------------------------------------------------------------
(* The noise penalty (SpecNoise)                                           *)

LicenseNames == {"license", "license.txt", "copying"}

VendoredSegments ==
    {"thirdparty", "third-party", "extern", "external", "vendor", "deps", ".github",
     "wayland", "glfw"}

RECURSIVE SegmentsFrom(_, _, _)
\* the segments of a path from position i on, cur being the one begun
SegmentsFrom(s, i, cur) ==
    IF i > Len(s) THEN {cur}
    ELSE IF SubSeq(s, i, i) = "/" THEN {cur} \cup SegmentsFrom(s, i + 1, "")
         ELSE SegmentsFrom(s, i + 1, cur \o SubSeq(s, i, i))

PathSegments(s) == SegmentsFrom(s, 1, "")

\* the title is a license file name, the path ends in a license file or
\* has a vendored directory as one of its segments (letter case apart)
OnNoiseList(record) ==
    LET title == Lower(FieldText(record.title))
        path  == Lower(FieldText(record.path))
    IN  \/ title \in LicenseNames
        \/ EndsWith(path, "/license") \/ EndsWith(path, "/license.txt")
        \/ PathSegments(path) \cap VendoredSegments # {}

\* the score of the call when the noise factor is left out or put in
ScoreWithNoise(x) ==
    LET f == Fields(rec)
    IN  MakeScore(RawScore(q_tokens, f), Max2(Cardinality(Range(q_tokens)), 1),
                  SourceBoost(f) \o PathBoost(f) \o IntentBoost(q_tokens, q_intents, f)
                  \o x)

----------------------------------------------------------------------------
(* The site intent (SpecSite)                                              *)

\* the last call is the one before it with the site intent added
SiteIntentAdded ==
    /\ pc = "rescored"
    /\ "site" \notin earlier[Len(earlier)].query_intents
    /\ q_intents = earlier[Len(earlier)].query_intents \cup {"site"}

UnderSite(record) == StartsWith(Lower(FieldText(record.path)), "site/")

SourceTypeIs(record, name) == Lower(FieldText(record.source_type)) = name

\* C27: with the same query tokens and record, adding the site intent
\* strictly raises a positive score of a record under site/, strictly
\* lowers a positive score of a repo_file record not under site/, and
\* leaves the score of every other record that is not site_data as it was.
C27_SiteIntentRaisesSiteLowersRepoFiles ==
    SiteIntentAdded =>
        LET before == earlier[Len(earlier)].score
        IN  CASE ScorePositive(before) /\ UnderSite(rec) -> ScoreLess(before, score)
              [] ScorePositive(before) /\ ~UnderSite(rec) /\ SourceTypeIs(rec, "repo_file")
                    -> ScoreLess(score, before)
              [] OTHER -> SourceTypeIs(rec, "site_data") \/ ScoreEq(score, before)

\* a repo_file record outside site/ with a positive score, which is lower
\* once the site intent is added
C27_Witness ==
    /\ SiteIntentAdded
    /\ rec.path = Str("docs/site/index.md")
    /\ SourceTypeIs(rec, "repo_file")
    /\ ScorePositive(score)
    /\ ScoreLess(score, earlier[Len(earlier)].score)

----------------------------------------------------------------------------
(* The penalties as independent factors (SpecScore)                        *)

\* the record carries the unverified tag
CarriesUnverifiedTag(record) ==
    \E i \in DOMAIN TagItems(record) : Lower(TagItems(record)[i]) = UnverifiedTag

\* raw_score times the source, path-prefix, intent and path-noise factors:
\* the score without the unverified and the low-coverage penalty
ScoreWithoutPenalties ==
    LET f == Fields(rec)
    IN  MakeScore(RawScore(q_tokens, f), Max2(Cardinality(Range(q_tokens)), 1),
                  <<SOURCE_BOOST(f.source_type)>> \o PathBoost(f)
                  \o IntentBoost(q_tokens, q_intents, f)
                  \o (IF OnNoiseList(rec) THEN <<25>> ELSE <<>>))

\* sc times 0.35 for the unverified tag and times 0.55 for low coverage
WithPenalties(sc, unverified, weak) ==
    LET a == IF unverified THEN TimesPercent(sc, 35) ELSE sc
    IN  IF weak THEN TimesPercent(a, 55) ELSE a

\* C28: the score of a call that is not rejected is the score without the
\* two penalties times 0.35 if the record carries the unverified tag and
\* times 0.55 if the query has at least 4 distinct tokens and coverage
\* < 0.20: times 0.35 * 0.55 when both hold, neither replacing the other;
\* the source, path-prefix, intent and noise factors are multiplied in.
C28_PenaltiesAreIndependentFactors ==
    (pc = "scored" /\ ~FastReject(q_tokens, Fields(rec))) =>
        ScoreEq(score, WithPenalties(ScoreWithoutPenalties, CarriesUnverifiedTag(rec),
                                     BroadWeakQuery(q_tokens, rec)))

\* a tagged record scored > 0 against a query of six tokens, one of them
\* found in the record
C28_Witness ==
    /\ pc = "scored"
    /\ CarriesUnverifiedTag(rec)
    /\ BroadWeakQuery(q_tokens, rec)
    /\ ScorePositive(score)
    /\ ScoreEq(score, TimesPercent(TimesPercent(ScoreWithoutPenalties, 35), 55))

----------------------------------------------------------------------------
(* The verdict on an evaluation case (SpecJudge)                           *)

\* the pattern is a substring, letter case apart, of the path or of the url
\* of some returned record
FoundInResults(pattern) ==
    \E i \in DOMAIN deduped :
        \/ Contains(Lower(FieldText(deduped[i].record.path)), Lower(pattern))
        \/ Contains(Lower(FieldText(deduped[i].record.url)), Lower(pattern))

ExpectedCondition ==
    IF require_all_expected
    THEN \A i \in DOMAIN expected : FoundInResults(expected[i])
    ELSE expected = <<>> \/ \E i \in DOMAIN expected : FoundInResults(expected[i])

ForbiddenCondition ==
    Cardinality({p \in Range(forbidden) : FoundInResults(p)}) <= max_forbidden_hits

\* C29: a case passes exactly when the expected condition (every expected
\* pattern found in the path or url of a returned record if
\* require_all_expected, else one found or none given) and the forbidden
\* condition (forbidden patterns found <= max_forbidden_hits) both hold;
\* matched_expected is never above expected_total.
C29_PassesIffExpectedAndForbiddenHold ==
    pc = "judged" =>
        /\ verdict.passed <=> (ExpectedCondition /\ ForbiddenCondition)
        /\ verdict.matched_expected <= verdict.expected_total

----------------------------------------------------------------------------
(* The size of the deduplicated list (SpecDedupe)                          *)

\* the record has a path, a url or an id
HasIdentity(record) ==
    \E k \in {"path", "url", "id"} : Strip(FieldText(record[k])) # ""

\* C30: dedupe_matches returns at most top_k matches for every input and
\* every integer top_k, none when top_k <= 0, and no match whose record
\* has no path, url or id.
C30_AtMostTopKAndOnlyIdentified ==
    pc = "deduped" =>
        /\ Len(deduped) <= Max2(top_k, 0)
        /\ \A i \in DOMAIN deduped : HasIdentity(deduped[i].record)

=============================================================================
